---- MODULE Spec2Model ----
(***************************************************************************)
(* Forecast decision and prediction engine of signalk-meteoblue            *)
(* (src/src/index.ts): session state, the update trigger, the dispatch     *)
(* between the stationary fetch and the moving-vessel assembler, and the   *)
(* refresh cycles, which are asynchronous and interleave with navigation   *)
(* events, engagement commands, timers and stop at every await.            *)
(*                                                                         *)
(* Units.  Time is counted in whole hours since a local midnight; Date.now *)
(* is now * MsPerHour.  Every position lies on the prime meridian and its  *)
(* latitude is given as arc length from the equator in units of 10^-4 m,   *)
(* so that the haversine distance of two positions is the difference of    *)
(* their latitudes and a great-circle run due north or south adds or       *)
(* subtracts the distance run.  Speed is in 10^-6 m/s, heading in 10^-6    *)
(* rad.                                                                    *)
(***************************************************************************)
EXTENDS Integers, Sequences, FiniteSets, TLC

(* ------------------------------ bounds -------------------------------- *)

\* Refresh cycles that may be in flight together: in the runs of the whole
\* session, and in the runs that let triggers overlap.
MaxCycles == 1
OverlapCycles == 2
\* config.maxForecastHours and config.maxForecastDays of the session.
MaxForecastHours == 2
MaxForecastDays == 2
\* Hour of the day at which the behaviour begins, and the clock's last hour.
StartHour == 22
MaxNow == 24
\* config.maxForecastHours and frame length of the hour-matching runs.
HourSpecForecastHours == 5
HourSpecRows == 48
\* Length of data_1h.time in the frames of the stationary and the daily
\* fetch of the session runs.
StatRows == 30

(* ------------------------- program constants -------------------------- *)

MsPerHour == 3600000
HoursPerDay == 24
ForecastIntervalMinutes == 120
MovingSpeedThreshold == 1
KnotsToMicroMps == 514444
UpdateDistanceMeters == 9260
\* Latitude units (10^-4 m of meridian arc) per metre.
LatUnitsPerMeter == 10 * 1000
TargetHourBuffer == 3
HeadingNorth == 0
HeadingSouth == 3141593
NoValue == -1
NoTimer == -1
BadRequest == 400

(* ------------------------------ values -------------------------------- *)

NullPos == [kind |-> "null", latitude |-> 0]
EmptyPos == [kind |-> "empty", latitude |-> 0]

Pos(lat) == [kind |-> "pos", latitude |-> lat]

\* Speeds delivered by navigation.speedOverGround: exactly the threshold
\* (1 knot) and 5 knots.
FiveKnots == 5 * KnotsToMicroMps

SogChoices == {KnotsToMicroMps, FiveKnots}
HeadingChoices == {HeadingNorth, HeadingSouth}
\* Positions delivered by navigation.position: the equator, 9260 m north of
\* it and 0.1 mm further.
PositionChoices ==
    {Pos(0), Pos(UpdateDistanceMeters * LatUnitsPerMeter),
     Pos(UpdateDistanceMeters * LatUnitsPerMeter + 1)}
\* Rows of data_1h.time in a provider frame, which starts at local midnight.
FrameRowChoices == {24, 30}
Responses == {"ok", "http_error", "net_error"}

Min(a, b) == IF a < b THEN a ELSE b

Max(a, b) == IF a < b THEN b ELSE a

Abs(a) == IF a < 0 THEN 0 - a ELSE a

VARIABLES
    options,                \* the configuration the host passes to start
    currentConfig,          \* state.currentConfig
    navigationSubscriptions,\* state.navigationSubscriptions is non-empty
    forecastInterval,       \* state.forecastInterval: hours until it fires
    initialFetchPending,    \* the start-up setTimeout has not fired yet
    currentPosition,        \* state.currentPosition
    currentHeading,         \* state.currentHeading
    currentSOG,             \* state.currentSOG
    lastForecastUpdate,     \* state.lastForecastUpdate
    movingForecastEngaged,  \* state.movingForecastEngaged
    lastCommand,            \* the last engagement command of the session
    now,                    \* the clock
    cycle,                  \* the refresh cycles in flight, by slot
    ended,                  \* what the cycle that returned in the last step did
    output,                 \* what the last step returned and published
    data,                   \* one row of a provider frame, by field name
    packageType,            \* the package the row is processed for
    processed,              \* the processor that produced forecast
    forecast,               \* the record the processor returned
    weatherData,            \* the Weather API object converted from it
    store,                  \* the host's tree of published forecast values
    query,                  \* the last Weather API query and what it returned
    account                 \* state.accountInfo, the account timers and checks

\* The variables of the forecast processors, the Weather API conversion and
\* the published forecasts.
forecastVars ==
    <<data, packageType, processed, forecast, weatherData, store, query>>

dataVars == <<forecastVars, account>>

vars ==
    <<options, currentConfig, navigationSubscriptions, forecastInterval,
      initialFetchPending, currentPosition, currentHeading, currentSOG,
      lastForecastUpdate, movingForecastEngaged, lastCommand, now, cycle,
      ended, output, dataVars>>

(* -------------------------- pure functions ---------------------------- *)

DateNow == now * MsPerHour

\* Math.cos of the headings of HeadingChoices.
CosHeading(headingRad) == IF headingRad = HeadingNorth THEN 1 ELSE -1

\* calculateFuturePosition: distanceMeters = sogMps * hoursAhead * 3600 run
\* along the meridian, north for cos(heading) = 1 and south for -1; a
\* speed of 10^-6 m/s covers 3600 * 10^-6 m an hour.
CalculateFuturePosition(currentPos, headingRad, sogMps, hoursAhead) ==
    Pos(currentPos.latitude
        + CosHeading(headingRad) * sogMps * hoursAhead
          * ((3600 * LatUnitsPerMeter) \div 1000000))

IsVesselMovingAtThreshold(sogMps, thresholdKnots) ==
    sogMps >= thresholdKnots * KnotsToMicroMps

\* isVesselMoving: strictly above the threshold converted to m/s.
IsVesselMoving(sogMps, thresholdKnots) ==
    sogMps > thresholdKnots * KnotsToMicroMps

\* The haversine distance of shouldUpdateForecast, in latitude units; both
\* positions lie on the same meridian.
HaversineDistance(p1, p2) == Abs(p2.latitude - p1.latitude)

ShouldUpdateReasonInclusive(position, stored) ==
    IF stored.kind = "null" \/ lastForecastUpdate = 0
    THEN "no_prior"
    ELSE IF DateNow - lastForecastUpdate
                >= currentConfig.forecastInterval * 60 * 1000
    THEN "interval"
    ELSE IF stored.kind = "pos"
            /\ HaversineDistance(stored, position)
                   >= UpdateDistanceMeters * LatUnitsPerMeter
    THEN "distance"
    ELSE "none"

\* shouldUpdateForecast, by the return statement that decides; stored is
\* state.currentPosition as the position callback has left it.  A stored
\* position without coordinates (EmptyPos) makes the distance NaN, and the
\* comparison false.
ShouldUpdateReason(position, stored) ==
    IF stored.kind = "null" \/ lastForecastUpdate = 0
    THEN "no_prior"
    ELSE IF DateNow - lastForecastUpdate
                >= currentConfig.forecastInterval * 60 * 1000
    THEN "interval"
    ELSE IF stored.kind = "pos"
            /\ HaversineDistance(stored, position)
                   > UpdateDistanceMeters * LatUnitsPerMeter
    THEN "distance"
    ELSE "none"

ShouldUpdateForecast(position, stored) ==
    ShouldUpdateReason(position, stored) # "none"

\* data_1h.time of a frame of the given number of rows fetched at hour t:
\* hourly timestamps from the local midnight of t.
FrameTimes(rows, t) == [i \in 1..rows |-> (t - (t % HoursPerDay)) + (i - 1)]

\* The startIndex of processHourlyForecastForPackage (0-based): the first
\* row at or after the current hour; failing that the first row after now;
\* failing that 0.
StartIndex(times, t) ==
    LET later == {i \in 1..Len(times) : times[i] >= t}
        after == {i \in 1..Len(times) : times[i] > t}
    IN  IF later # {}
        THEN (CHOOSE i \in later : \A j \in later : i <= j) - 1
        ELSE IF after # {}
        THEN (CHOOSE i \in after : \A j \in after : i <= j) - 1
        ELSE 0

\* processHourlyForecastForPackage: the timestamps of the records it
\* returns, processed at hour t.
ProcessHourlyForecastForPackage(times, maxHours, t) ==
    LET startIndex == StartIndex(times, t)
        count == Min(Len(times) - startIndex, maxHours)
    IN  [k \in 1..count |-> times[startIndex + k]]

\* The target-hour search of fetchForecastForMovingVessel: whether one of
\* the processed records carries the target hour.
HasTargetForecast(times, targetTime, t) ==
    LET totalHoursNeeded == (targetTime % HoursPerDay) + TargetHourBuffer
        allForecasts == ProcessHourlyForecastForPackage(times, totalHoursNeeded, t)
    IN  \E k \in 1..Len(allForecasts) : allForecasts[k] = targetTime

(* --------------------------- forecast records ------------------------ *)

\* Quantities are in thousandths of their unit: One is the number 1.  A
\* record is a function from the names of the fields it has to their
\* values; a field that is undefined is not in its domain.
One == 1000
KelvinOffset == 273150
PiMilli == 3142
StraightAngle == 180000
DaysPerWeek == 7

\* String.prototype.includes
Includes(s, sub) ==
    \E i \in 1..(Len(s) - Len(sub) + 1) : SubSeq(s, i, i + Len(sub) - 1) = sub

DegToRad(degrees) == (degrees * PiMilli) \div StraightAngle

CelsiusToKelvin(celsius) == celsius + KelvinOffset

MbToPA(mb) == mb * 100

MmToM(mm) == mm \div 1000

PercentToRatio(percent) == percent \div 100

RoundDown(value) == value \div One

\* Math.round of a quantity, as a whole number.
Round(value) == (value + (One \div 2)) \div One

\* douglasSeaStateSimple
DouglasSeaStateSimple(scale) ==
    LET descriptions ==
            <<"Calm", "Calm", "Smooth", "Slight", "Moderate", "Rough",
              "Very rough", "High", "Very high", "Phenomenal">>
    IN  IF Round(scale) + 1 \in DOMAIN descriptions
        THEN descriptions[Round(scale) + 1]
        ELSE "Unknown"

\* douglasSeaStateVerbose; the fallback text carries the scale.
DouglasSeaStateVerbose(scale) ==
    LET descriptions ==
            <<"Calm (0m) - Sea like a mirror",
              "Calm (0-0.1m) - Ripples with appearance of scales, no foam crests",
              "Smooth (0.1-0.5m) - Small wavelets, crests of glassy appearance, not breaking",
              "Slight (0.5-1.25m) - Large wavelets, crests begin to break, scattered whitecaps",
              "Moderate (1.25-2.5m) - Small waves becoming longer, numerous whitecaps",
              "Rough (2.5-4m) - Moderate waves, many whitecaps, some spray",
              "Very rough (4-6m) - Large waves, whitecaps everywhere, more spray",
              "High (6-9m) - Sea heaps up, white foam streaks off breakers",
              "Very high (9-14m) - Moderately high waves, crests break into spindrift",
              "Phenomenal (>14m) - High waves, dense foam, sea completely white with driving spray">>
    IN  IF Round(scale) + 1 \in DOMAIN descriptions
        THEN descriptions[Round(scale) + 1]
        ELSE "Unknown (" \o ToString(scale) \o ")"

Packages == {"basic", "wind", "sea", "solar", "trend", "clouds"}

\* getHourlyPackageFields
GetHourlyPackageFields(type) ==
    CASE type = "basic" ->
            {"temperature", "windspeed", "winddirection", "precipitation",
             "pictocode", "relativehumidity", "sealevelpressure",
             "surfaceairpressure", "uvindex", "felttemperature",
             "precipitation_probability", "isdaylight", "rainspot",
             "convective_precipitation", "snowfraction", "visibility",
             "dewpoint", "dewpointtemperature"}
      [] type = "wind" ->
            {"windspeed", "winddirection", "gust", "windspeed_80m",
             "winddirection_80m", "airdensity", "surfaceairpressure",
             "sealevelpressure"}
      [] type = "sea" ->
            {"seasurfacetemperature", "significantwaveheight",
             "surfwave_height", "windwave_height", "swell_significantheight",
             "mean_waveperiod", "windwave_meanperiod", "swell_meanperiod",
             "windwave_peakwaveperiod", "swell_peakwaveperiod",
             "mean_wavedirection", "windwave_direction",
             "swell_meandirection", "douglas_seastate", "wavesteepness",
             "currentvelocity_u", "currentvelocity_v", "salinity"}
      [] type = "solar" ->
            {"uvindex", "sunshine_duration", "isdaylight", "solarradiation",
             "extraterrestrial_solar_radiation", "irradiance_direct_normal",
             "irradiance_diffuse_horizontal", "irradiance_global_horizontal"}
      [] type = "trend" ->
            {"temperature", "precipitation", "windspeed", "winddirection",
             "pressure_trend", "temperature_trend", "windspeed_trend",
             "sealevelpressure_trend"}
      [] type = "clouds" ->
            {"cloudcover", "total_cloud_cover", "low_cloud_cover",
             "mid_cloud_cover", "high_cloud_cover", "cloud_base_height",
             "cloud_top_height"}
      [] OTHER -> {}

\* getDailyPackageFields
GetDailyPackageFields(type) ==
    CASE type = "basic" ->
            {"temperature_max", "temperature_min", "temperature_mean",
             "windspeed_max", "windspeed_min", "windspeed_mean",
             "winddirection", "precipitation", "pictocode",
             "relativehumidity_max", "relativehumidity_min",
             "relativehumidity_mean", "sealevelpressure_max",
             "sealevelpressure_min", "sealevelpressure_mean", "uvindex",
             "felttemperature_max", "felttemperature_min",
             "felttemperature_mean", "precipitation_probability",
             "precipitation_hours", "snowfraction", "rainspot",
             "visibility_mean", "dewpoint_max", "dewpoint_min",
             "dewpoint_mean"}
      [] type = "wind" ->
            {"windspeed_max", "windspeed_min", "windspeed_mean",
             "winddirection", "sealevelpressure_max", "sealevelpressure_min",
             "sealevelpressure_mean"}
      [] type = "sea" -> {"temperature_max", "temperature_min"}
      [] type = "solar" ->
            {"uvindex", "sunshine_duration", "solarradiation_max",
             "solarradiation_mean", "irradiance_direct_normal_max",
             "irradiance_diffuse_horizontal_max",
             "irradiance_global_horizontal_max"}
      [] type = "trend" ->
            {"temperature_max", "temperature_min", "precipitation",
             "windspeed_max", "winddirection"}
      [] type = "clouds" ->
            {"cloudcover_max", "cloudcover_min", "cloudcover_mean",
             "total_cloud_cover_max", "total_cloud_cover_min",
             "total_cloud_cover_mean", "low_cloud_cover_mean",
             "mid_cloud_cover_mean", "high_cloud_cover_mean"}
      [] OTHER -> {}

HourlyConversionLoose(field, value) ==
    IF Includes(field, "temperature") \/ field = "felttemperature"
    THEN CelsiusToKelvin(value)
    ELSE IF Includes(field, "direction") \/ field = "winddirection"
    THEN DegToRad(value)
    ELSE IF Includes(field, "precipitation")
    THEN MmToM(value)
    ELSE IF Includes(field, "pressure") \/ field = "sealevelpressure"
    THEN MbToPA(value)
    ELSE IF Includes(field, "humidity") \/ Includes(field, "cloudcover")
    THEN PercentToRatio(value)
    ELSE value

\* The unit conversion processHourlyForecastForPackage applies to the value
\* of a field, chosen by the field's name.
HourlyConversion(field, value) ==
    IF Includes(field, "temperature") \/ field = "felttemperature"
    THEN CelsiusToKelvin(value)
    ELSE IF Includes(field, "direction") \/ field = "winddirection"
    THEN DegToRad(value)
    ELSE IF field = "precipitation" \/ field = "convective_precipitation"
    THEN MmToM(value)
    ELSE IF Includes(field, "pressure") \/ field = "sealevelpressure"
    THEN MbToPA(value)
    ELSE IF Includes(field, "humidity") \/ Includes(field, "cloudcover")
    THEN PercentToRatio(value)
    ELSE IF Includes(field, "precipitation_probability")
    THEN PercentToRatio(value)
    ELSE value

\* The unit conversion processDailyForecastForPackage applies.
DailyConversion(field, value) ==
    IF Includes(field, "temperature") \/ field = "felttemperature"
    THEN CelsiusToKelvin(value)
    ELSE IF Includes(field, "direction") \/ field = "winddirection"
    THEN DegToRad(value)
    ELSE IF field = "precipitation" \/ field = "convective_precipitation"
    THEN MmToM(value)
    ELSE IF Includes(field, "pressure") \/ field = "sealevelpressure"
    THEN MbToPA(value)
    ELSE IF Includes(field, "humidity") \/ Includes(field, "cloudcover")
    THEN PercentToRatio(value)
    ELSE IF Includes(field, "precipitation_probability")
    THEN PercentToRatio(value)
    ELSE value

\* The two description fields added beside douglas_seastate.
DouglasFields(present) ==
    IF "douglas_seastate" \in present
    THEN {"douglas_seastate_description", "douglas_seastate_verbose"}
    ELSE {}

AllowedFieldsAll(type, row) == DOMAIN row \ {"time"}

\* The fields of a row that processHourlyForecastForPackage extracts: those
\* of the package's list that the row has.
AllowedFields(type, row) == GetHourlyPackageFields(type) \cap DOMAIN row

\* The record processHourlyForecastForPackage builds from a row.
HourlyForecastRecord(row, type) ==
    LET present == AllowedFields(type, row)
    IN  [field \in {"timestamp", "relativeHour"} \cup present
                       \cup DouglasFields(present) |->
            CASE field = "timestamp" -> row["time"]
              [] field = "relativeHour" -> row["time"] - now
              [] field = "douglas_seastate_description" ->
                     DouglasSeaStateSimple(row["douglas_seastate"])
              [] field = "douglas_seastate_verbose" ->
                     DouglasSeaStateVerbose(row["douglas_seastate"])
              [] OTHER -> HourlyConversion(field, row[field])]

DaysOfWeek ==
    <<"Sunday", "Monday", "Tuesday", "Wednesday", "Thursday", "Friday",
      "Saturday">>

\* The record processDailyForecastForPackage builds from a row; hour 0 is
\* the midnight that begins a Sunday.
DailyForecastRecord(row, type) ==
    LET present == GetDailyPackageFields(type) \cap DOMAIN row
    IN  [field \in {"date", "dayOfWeek"} \cup present
                       \cup DouglasFields(present) |->
            CASE field = "date" -> row["time"]
              [] field = "dayOfWeek" ->
                     DaysOfWeek[((row["time"] \div HoursPerDay) % DaysPerWeek) + 1]
              [] field = "douglas_seastate_description" ->
                     DouglasSeaStateSimple(row["douglas_seastate"])
              [] field = "douglas_seastate_verbose" ->
                     DouglasSeaStateVerbose(row["douglas_seastate"])
              [] OTHER -> DailyConversion(field, row[field])]

\* forecastData as the Weather API provider reads it back from the published
\* values: the fields of the package's list that were published.
ForecastData(record, fields) ==
    [field \in fields \cap DOMAIN record |-> record[field]]

\* JavaScript's truthiness of forecastData[field], a number or undefined.
Truthy(forecastData, field) ==
    field \in DOMAIN forecastData /\ forecastData[field] # 0

\* forecastData[field] || 0
OrZero(forecastData, field) ==
    IF Truthy(forecastData, field) THEN forecastData[field] ELSE 0

\* Math.sqrt(u ** 2 + v ** 2), to the thousandth below.
Magnitude(u, v) ==
    CHOOSE r \in 0..(Abs(u) + Abs(v)) :
        r * r <= u * u + v * v /\ (r + 1) * (r + 1) > u * u + v * v

\* Math.atan2(y, x) on the axes and the diagonal of the first quadrant.
Atan2(y, x) ==
    IF y = 0 THEN 0
    ELSE IF x = 0 THEN PiMilli \div 2
    ELSE PiMilli \div 4

\* The fields of the groups outside, wind, water and sun that
\* convertToWeatherAPIObservation copies from one field of forecastData.
ObservationCopies ==
    {<<"outside.temperature", "temperature">>,
     <<"outside.pressure", "sealevelpressure">>,
     <<"outside.relativeHumidity", "relativehumidity">>,
     <<"outside.uvIndex", "uvindex">>,
     <<"outside.cloudCover", "cloudcover">>,
     <<"outside.precipitationVolume", "precipitation">>,
     <<"outside.feelsLikeTemperature", "felttemperature">>,
     <<"outside.horizontalVisibility", "visibility">>,
     <<"outside.precipitationProbability", "precipitation_probability">>,
     <<"outside.solarRadiation", "solarradiation">>,
     <<"outside.directNormalIrradiance", "irradiance_direct_normal">>,
     <<"outside.diffuseHorizontalIrradiance", "irradiance_diffuse_horizontal">>,
     <<"outside.globalHorizontalIrradiance", "irradiance_global_horizontal">>,
     <<"outside.extraterrestrialSolarRadiation",
       "extraterrestrial_solar_radiation">>,
     <<"outside.totalCloudCover", "total_cloud_cover">>,
     <<"outside.lowCloudCover", "low_cloud_cover">>,
     <<"outside.midCloudCover", "mid_cloud_cover">>,
     <<"outside.highCloudCover", "high_cloud_cover">>,
     <<"outside.cloudBaseHeight", "cloud_base_height">>,
     <<"outside.cloudTopHeight", "cloud_top_height">>,
     <<"wind.speedTrue", "windspeed">>,
     <<"wind.directionTrue", "winddirection">>,
     <<"wind.gust", "gust">>,
     <<"wind.averageSpeed", "windspeed">>,
     <<"wind.gustDirectionTrue", "gustdirection">>,
     <<"water.temperature", "seasurfacetemperature">>,
     <<"water.waveSignificantHeight", "significantwaveheight">>,
     <<"water.wavePeriod", "mean_waveperiod">>,
     <<"water.waveDirection", "mean_wavedirection">>,
     <<"water.swellHeight", "swell_significantheight">>,
     <<"water.swellPeriod", "swell_meanperiod">>,
     <<"water.swellDirection", "swell_meandirection">>,
     <<"water.salinity", "salinity">>,
     <<"water.seaState", "douglas_seastate">>,
     <<"water.surfaceWaveHeight", "surfwave_height">>,
     <<"water.windWaveHeight", "windwave_height">>,
     <<"water.windWavePeriod", "windwave_meanperiod">>,
     <<"water.windWaveDirection", "windwave_direction">>,
     <<"water.swellPeakPeriod", "swell_peakwaveperiod">>,
     <<"water.windWavePeakPeriod", "windwave_peakwaveperiod">>,
     <<"water.waveSteepness", "wavesteepness">>,
     <<"sun.sunshineDuration", "sunshine_duration">>}

\* The same for the daily branch of convertToWeatherAPIForecast.
DailyCopies ==
    {<<"outside.temperature", "temperature_mean">>,
     <<"outside.maxTemperature", "temperature_max">>,
     <<"outside.minTemperature", "temperature_min">>,
     <<"outside.feelsLikeTemperature", "felttemperature_mean">>,
     <<"outside.pressure", "sealevelpressure_mean">>,
     <<"outside.relativeHumidity", "relativehumidity_mean">>,
     <<"outside.uvIndex", "uvindex">>,
     <<"outside.precipitationVolume", "precipitation">>,
     <<"outside.dewPointTemperature", "dewpoint_mean">>,
     <<"outside.horizontalVisibility", "visibility_mean">>,
     <<"outside.precipitationProbability", "precipitation_probability">>,
     <<"outside.cloudCover", "cloudcover_mean">>,
     <<"outside.totalCloudCover", "total_cloud_cover_mean">>,
     <<"outside.lowCloudCover", "low_cloud_cover_mean">>,
     <<"outside.midCloudCover", "mid_cloud_cover_mean">>,
     <<"outside.highCloudCover", "high_cloud_cover_mean">>,
     <<"outside.solarRadiation", "solarradiation_mean">>,
     <<"outside.directNormalIrradiance", "irradiance_direct_normal_max">>,
     <<"outside.diffuseHorizontalIrradiance",
       "irradiance_diffuse_horizontal_max">>,
     <<"outside.globalHorizontalIrradiance",
       "irradiance_global_horizontal_max">>,
     <<"wind.speedTrue", "windspeed_max">>,
     <<"wind.directionTrue", "winddirection">>,
     <<"wind.averageSpeed", "windspeed_mean">>,
     <<"water.temperature", "seasurfacetemperature_mean">>,
     <<"sun.sunshineDuration", "sunshine_duration">>}

\* The output fields that copy a field forecastData has.
Copied(copies, forecastData) ==
    {c[1] : c \in {d \in copies : d[2] \in DOMAIN forecastData}}

\* The source field of a copied output field.
SourceOf(copies, out) == (CHOOSE c \in copies : c[1] = out)[2]

\* The fields both conversions compute from the current velocity.
CurrentSpeeds == {"water.surfaceCurrentSpeed", "current.drift"}
CurrentDirections == {"water.surfaceCurrentDirection", "current.set"}

\* Whether the current direction is defined: u && v.
HasCurrentDirection(forecastData) ==
    Truthy(forecastData, "currentvelocity_u")
        /\ Truthy(forecastData, "currentvelocity_v")

\* The value of a field computed from the current velocity.
CurrentValue(out, forecastData) ==
    IF out \in CurrentSpeeds
    THEN Magnitude(OrZero(forecastData, "currentvelocity_u"),
                   OrZero(forecastData, "currentvelocity_v"))
    ELSE Atan2(forecastData["currentvelocity_v"],
               forecastData["currentvelocity_u"])

\* forecastData.pressure_trend || forecastData.sealevelpressure_trend, when
\* that is truthy.
PressureTrend(forecastData) ==
    IF Truthy(forecastData, "pressure_trend")
    THEN forecastData["pressure_trend"]
    ELSE forecastData["sealevelpressure_trend"]

HasPressureTrend(forecastData) ==
    Truthy(forecastData, "pressure_trend")
        \/ Truthy(forecastData, "sealevelpressure_trend")

\* forecastData.dewpoint || forecastData.dewpointtemperature
HasDewPoint(forecastData) ==
    Truthy(forecastData, "dewpoint")
        \/ "dewpointtemperature" \in DOMAIN forecastData

DewPoint(forecastData) ==
    IF Truthy(forecastData, "dewpoint")
    THEN forecastData["dewpoint"]
    ELSE forecastData["dewpointtemperature"]

\* convertToWeatherAPIObservation: the type and the groups outside, wind,
\* water, sun and current of the object it returns, by "group.field".
ConvertToWeatherAPIObservation(forecastData) ==
    LET copied == Copied(ObservationCopies, forecastData)
        dew == IF HasDewPoint(forecastData)
               THEN {"outside.dewPointTemperature"} ELSE {}
        trend == IF HasPressureTrend(forecastData)
                 THEN {"outside.pressureTendency"} ELSE {}
        direction == IF HasCurrentDirection(forecastData)
                     THEN CurrentDirections ELSE {}
    IN  [out \in {"type", "sun.isDaylight"} \cup copied \cup dew \cup trend
                     \cup CurrentSpeeds \cup direction |->
            CASE out = "type" -> "observation"
              [] out = "sun.isDaylight" ->
                     ("isdaylight" \in DOMAIN forecastData
                          /\ forecastData["isdaylight"] = One)
              [] out = "outside.dewPointTemperature" -> DewPoint(forecastData)
              [] out = "outside.pressureTendency" ->
                     (IF PressureTrend(forecastData) > 0 THEN "increasing"
                      ELSE IF PressureTrend(forecastData) < 0 THEN "decreasing"
                      ELSE "steady")
              [] out \in CurrentSpeeds \cup CurrentDirections ->
                     CurrentValue(out, forecastData)
              [] OTHER -> forecastData[SourceOf(ObservationCopies, out)]]

\* convertToWeatherAPIForecast
ConvertToWeatherAPIForecast(forecastData, type) ==
    IF type = "daily"
    THEN LET copied == Copied(DailyCopies, forecastData)
             direction == IF HasCurrentDirection(forecastData)
                          THEN CurrentDirections ELSE {}
         IN  [out \in {"type"} \cup copied \cup CurrentSpeeds
                          \cup direction |->
                 CASE out = "type" -> "daily"
                   [] out \in CurrentSpeeds \cup CurrentDirections ->
                          CurrentValue(out, forecastData)
                   [] OTHER -> forecastData[SourceOf(DailyCopies, out)]]
    ELSE [ConvertToWeatherAPIObservation(forecastData) EXCEPT !["type"] = type]

\* The values a provider row holds for a field: 0 and 1.
RawValues == {0, One}

\* Every field name of a package list.
AllFields ==
    UNION {GetHourlyPackageFields(type) \cup GetDailyPackageFields(type) :
               type \in Packages}

\* The fields a provider row holds beside its time: none, any one field of a
\* package list, a field of no list, or one of three pairs.
FrameFieldSets ==
    {{}} \cup {{field} : field \in AllFields \cup {"gustdirection"}}
         \cup {{"significantwaveheight", "temperature"},
               {"currentvelocity_u", "currentvelocity_v"},
               {"dewpoint", "dewpointtemperature"}}

\* The values a provider row holds for douglas_seastate beside those: the
\* halves below 0, at 4 and at 10, whole and fractional values between,
\* and 11.
SeaStateValues ==
    {0 - One, 0 - (One \div 2) - 1, 0 - (One \div 2), (7 * One) \div 2,
     4 * One, (9 * One) \div 2 - 1, (19 * One) \div 2 - 1, (19 * One) \div 2,
     11 * One}

\* The provider rows: the hour 0 with a value for each field they hold.
Frames ==
    UNION {{[field \in fields \cup {"time"} |->
                 IF field = "time" THEN 0 ELSE values[field]] :
                values \in [fields -> RawValues]} :
           fields \in FrameFieldSets}
        \cup {[field \in {"douglas_seastate", "time"} |->
                  IF field = "time" THEN 0 ELSE value] :
                 value \in SeaStateValues}

(* --------------------------- provider frames ------------------------- *)

\* getEnabledPackages: the enabled package types of each granularity, in the
\* order the enable flags are tested.
PackageOrder == <<"basic", "wind", "sea", "solar", "trend", "clouds">>

GetEnabledPackages(config) ==
    [hourly |-> SelectSeq(PackageOrder, LAMBDA t : t \in config.hourlyPackages),
     daily |-> SelectSeq(PackageOrder, LAMBDA t : t \in config.dailyPackages)]

\* A block (data_1h or data_day) of a provider frame: whether the frame has
\* it, whether it has a time array, the times of its rows, the fields it
\* has beside time, the value that every field has in every row, and the
\* times of the rows whose values are all null.
Block(times, fields, value, nulls) ==
    [present |-> TRUE, timeValid |-> TRUE, times |-> times, fields |-> fields,
     value |-> value, nulls |-> nulls]

\* A frame without the block.
NoBlock == [Block(<<>>, {}, 0, {}) EXCEPT !.present = FALSE]

\* A block without time.
NoTimeBlock == [Block(<<>>, {}, 0, {}) EXCEPT !.timeValid = FALSE]

\* The row of a block at a time, by field name.
ProviderRow(block, time) ==
    [field \in (IF time \in block.nulls THEN {} ELSE block.fields)
                  \cup {"time"} |->
        IF field = "time" THEN time ELSE block.value]

\* processHourlyForecastForPackage on a block at hour t: the records of the
\* rows from the start index on, maxHours of them at most; none when time
\* is not an array.
ProcessHourlyBlock(block, maxHours, type, t) ==
    IF ~block.timeValid
    THEN <<>>
    ELSE LET stamps == ProcessHourlyForecastForPackage(block.times, maxHours, t)
         IN  [k \in 1..Len(stamps) |->
                 HourlyForecastRecord(ProviderRow(block, stamps[k]), type)]

\* processDailyForecastForPackage on a block.
ProcessDailyBlock(block, maxDays, type) ==
    IF ~block.timeValid
    THEN <<>>
    ELSE [k \in 1..Min(Len(block.times), maxDays) |->
             DailyForecastRecord(ProviderRow(block, block.times[k]), type)]

\* A provider frame: its hourly and its daily block.
Frame(hourly, daily) == [hourly |-> hourly, daily |-> daily]

\* The hourly and daily processing of fetchForecast on a frame at hour t:
\* the records it hands to publishHourlyForecasts and to
\* publishDailyForecasts, by package type.
FrameSeries(frame, config, t) ==
        [hourly |->
             [type \in (IF frame.hourly.present
                        THEN config.hourlyPackages ELSE {}) |->
                 ProcessHourlyBlock(frame.hourly, config.maxForecastHours,
                                    type, t)],
         daily |->
             [type \in (IF frame.daily.present
                        THEN config.dailyPackages ELSE {}) |->
                 ProcessDailyBlock(frame.daily, config.maxForecastDays, type)]]

\* The times of a block of the given rows from hour t on, step hours apart.
BlockTimes(rows, step, t) == [i \in 1..rows |-> t + (i - 1) * step]

\* The fields of the frames of the session runs: one hourly and one daily
\* field of the basic package.
SessionFields == {"temperature", "temperature_max"}

\* The frame the provider returns at hour t in the session runs: rows
\* hourly rows and MaxForecastDays daily rows from the local midnight of t,
\* every value 1.
SessionFrame(rows, t) ==
    Frame(Block(FrameTimes(rows, t), SessionFields, One, {}),
          Block(BlockTimes(MaxForecastDays, HoursPerDay,
                           t - (t % HoursPerDay)),
                SessionFields, One, {}))

BuildMeteoblueUrlNeverThrows(config) == FALSE

\* buildMeteoblueUrl throws when no package is enabled.
BuildMeteoblueUrlThrows(config) ==
    config.hourlyPackages = {} /\ config.dailyPackages = {}

HourForecastAsProcessed(targetForecast, predictedPos) == targetForecast

\* hourForecast: the record of the target hour with the predicted position
\* and the moving flag.
HourForecast(targetForecast, predictedPos) ==
    LET added == {"predictedLatitude", "predictedLongitude", "vesselMoving"}
    IN  [key \in DOMAIN targetForecast \cup added |->
            CASE key = "predictedLatitude" -> predictedPos.latitude
              [] key = "predictedLongitude" -> 0
              [] key = "vesselMoving" -> TRUE
              [] OTHER -> targetForecast[key]]

\* What a cycle hands to the host in one publication: the metadata, or the
\* records of one call of publishHourlyForecasts or publishDailyForecasts
\* with state.currentPosition (cp) as it is then; by is the function that
\* publishes.
Publication(by, granularity, type, forecasts, cp) ==
    [by |-> by, granularity |-> granularity, type |-> type,
     forecasts |-> forecasts, cp |-> cp]

\* The publications of the series of the packages of a list, in its order.
PackagePublications(by, granularity, types, series, cp) ==
    [k \in 1..Len(types) |->
        Publication(by, granularity, types[k], series[types[k]], cp)]

(* --------------------------- refresh cycles --------------------------- *)

\* The session state a moving-vessel forecast starts from; ok says that the
\* forecast is engaged, the speed above the threshold, and heading and
\* position known.
NoSnap ==
    [ok |-> FALSE, position |-> NullPos, heading |-> NoValue, sog |-> NoValue]

\* A cycle is one call of fetchForecast or fetchForecastForMovingVessel.
\* pc is the await it is suspended at; position, hour, predictedPos,
\* currentHour and acc (the hour offsets of the records collected in
\* allHourlyForecasts) are its locals.  The other fields record what the
\* cycle did: what triggered it, the session state it was dispatched in,
\* the predicted latitudes it fetched for, and its fetches, failures,
\* reports and publications.  allHourlyForecasts is the local of the
\* moving-vessel assembler, by package type; published are the cycle's
\* publications in their order, dataErrors counts its reports of a block
\* without a time array, and frame is the frame fetchForecast received.
IdleCycle ==
    [pc |-> "idle", position |-> NullPos, hour |-> 0, predictedPos |-> NullPos,
     currentHour |-> 0, acc |-> <<>>,
     byDistance |-> FALSE, snap |-> NoSnap,
     fetchedAt |-> <<>>, nStatFetch |-> 0, nDailyFetch |-> 0,
     failed |-> FALSE,
     reported |-> FALSE, advanced |-> FALSE, hourFailed |-> FALSE,
     movingPublished |-> FALSE, missed |-> FALSE,
     allHourlyForecasts |-> <<>>, published |-> <<>>, dataErrors |-> 0,
     frame |-> Frame(NoBlock, NoBlock)]

\* What is kept of a cycle that has returned.
Summary(c) ==
    [returned |-> c.pc = "done", startOk |-> c.snap.ok,
     nHourFetch |-> Len(c.fetchedAt), nStatFetch |-> c.nStatFetch,
     nDailyFetch |-> c.nDailyFetch,
     failed |-> c.failed, hourFailed |-> c.hourFailed,
     reported |-> c.reported, advanced |-> c.advanced,
     movingPublished |-> c.movingPublished,
     published |-> c.published, dataErrors |-> c.dataErrors,
     frame |-> c.frame]

\* The cycles in flight, in the order they started.
Slots == 1..Len(cycle)

Remove(seq, i) == [k \in 1..(Len(seq) - 1) |-> IF k < i THEN seq[k] ELSE seq[k + 1]]

\* A cycle as it is dispatched with state.currentPosition = cp.
NewCycle(trigger, cp) ==
    [IdleCycle EXCEPT
        !.byDistance = trigger = "distance",
        !.snap = IF /\ movingForecastEngaged
                    /\ currentSOG # NoValue
                    /\ currentSOG > options.movingSpeedThreshold * KnotsToMicroMps
                    /\ currentHeading # NoValue
                    /\ cp.kind = "pos"
                 THEN [ok |-> TRUE, position |-> cp,
                       heading |-> currentHeading, sog |-> currentSOG]
                 ELSE NoSnap]

DoneNever(c) == c

\* The cycle's function returns.
Done(c) == [c EXCEPT !.pc = "done"]

\* { ...position }: copying null gives an object without coordinates.
Spread(position) == IF position.kind = "null" THEN EmptyPos ELSE position

\* fetchForecast up to its await fetch(url).  Reading position.latitude of
\* a null position throws inside the try, and so does buildMeteoblueUrl
\* when no package is enabled: the catch reports the error and advances
\* lastForecastUpdate, and no fetch is issued.
FetchForecast(c, position) ==
    IF position.kind = "null" \/ BuildMeteoblueUrlThrows(options)
    THEN Done([c EXCEPT !.reported = TRUE, !.advanced = TRUE])
    ELSE [c EXCEPT !.pc = "statFetch", !.position = position,
                   !.nStatFetch = @ + 1]

\* The catch of fetchForecastForMovingVessel: report, then fall back to
\* fetchForecast(state.currentPosition!, config).
MovingCatch(c, cp) == FetchForecast([c EXCEPT !.reported = TRUE], cp)

\* The head of the per-hour loop up to its await fetch(url).
\* calculateFuturePosition throws on a position that is null or has no
\* timestamp, buildMeteoblueUrl when no package is enabled.
LoopTop(c, hour, cp) ==
    IF cp.kind # "pos" \/ BuildMeteoblueUrlThrows(options)
    THEN MovingCatch(c, cp)
    ELSE LET predictedPos ==
                 CalculateFuturePosition(cp, currentHeading, currentSOG, hour)
         IN  [c EXCEPT !.pc = "hourFetch", !.hour = hour,
                       !.predictedPos = predictedPos,
                       !.fetchedAt = Append(@, predictedPos.latitude)]

\* The entry guard of fetchForecastForMovingVessel: JavaScript's ! is true
\* of null and of 0.
MovingEntryGuard(cp) ==
    /\ cp.kind # "null"
    /\ currentHeading \notin {NoValue, 0}
    /\ currentSOG \notin {NoValue, 0}
    /\ IsVesselMoving(currentSOG, options.movingSpeedThreshold)
    /\ movingForecastEngaged

FetchForecastForMovingVessel(c, cp) ==
    IF ~MovingEntryGuard(cp)
    THEN FetchForecast(c, cp)
    ELSE LoopTop([c EXCEPT
                     !.currentHour = now,
                     !.allHourlyForecasts =
                         [type \in options.hourlyPackages |-> <<>>]],
                 0, cp)

\* The dispatch condition shared by the position callback, the periodic
\* timer and the start-up fetch.
MovingDispatch ==
    /\ currentHeading # NoValue
    /\ currentSOG # NoValue
    /\ IsVesselMoving(currentSOG, options.movingSpeedThreshold)
    /\ movingForecastEngaged

Dispatch(c, position, cp) ==
    IF MovingDispatch
    THEN FetchForecastForMovingVessel(c, cp)
    ELSE FetchForecast(c, position)

\* The code after the per-hour loop up to await fetch(dailyUrl): publish the
\* collected hourly records, then build the daily url from
\* state.currentPosition, which throws when that is null.
AfterLoop(c, cp) ==
    LET series ==
            PackagePublications("moving", "hourly",
                                GetEnabledPackages(options).hourly,
                                c.allHourlyForecasts, cp)
        c1 == [c EXCEPT
                 !.movingPublished = Len(c.acc) > 0,
                 !.published =
                     @ \o SelectSeq(series, LAMBDA p : Len(p.forecasts) > 0)]
    IN  IF cp.kind = "null" \/ BuildMeteoblueUrlThrows(options)
        THEN MovingCatch(c1, cp)
        ELSE [c1 EXCEPT !.pc = "dailyFetch", !.nDailyFetch = @ + 1]

\* The effect of a step that leaves slot i as c and state.currentPosition
\* as cp: every return of a cycle goes through an assignment of
\* lastForecastUpdate = Date.now().
Settle(i, c, cp) ==
    /\ cycle' = IF c.pc = "done"
                THEN Remove(cycle, i)
                ELSE IF i > Len(cycle) THEN Append(cycle, c)
                ELSE [cycle EXCEPT ![i] = c]
    /\ ended' = Summary(c)
    /\ lastForecastUpdate' =
           IF c.pc = "done" /\ c.advanced THEN DateNow ELSE lastForecastUpdate
    /\ currentPosition' = cp

(* ------------------------------ actions ------------------------------- *)

\* A step that returns nothing to the host and publishes no engagement
\* state.  state and statusCode are the result of the PUT handler, published
\* the values sent on commands.meteoblue.engaged.
NoOutput == [state |-> "none", statusCode |-> NoValue, published |-> <<>>]

\* The delta on commands.meteoblue.engaged.
EngagedDelta(value) == [NoOutput EXCEPT !.published = <<value>>]

\* The host's tree under environment.outside.meteoblue.forecast before
\* anything is published: by granularity, the values at each index, from
\* index 0, as a function from key to value.
\* publications counts the frames that have been published into it.
EmptyStore == [hourly |-> <<>>, daily |-> <<>>, publications |-> 0]

\* No Weather API query has been answered.  checked says that the first
\* index was tested for data, probes are the indices the index scan
\* tested, indices the indices of the records returned, forecasts the
\* records returned.
NoQuery ==
    [method |-> "none", type |-> "none", maxCount |-> 0, checked |-> FALSE,
     probes |-> <<>>, indices |-> <<>>, forecasts |-> <<>>]

\* The account state after construction: state.accountInfo is null, no
\* timer is set, no check is in flight and the host holds no notification.
NoAccount ==
    [accountInfo |-> NoValue, timeoutPending |-> FALSE,
     accountCheckInterval |-> FALSE, inFlight |-> 0, apiUsage |-> "none",
     checked |-> NoValue, previous |-> NoValue, published |-> "none"]

\* No record is being processed, nothing is published and no query made.
ForecastIdle ==
    /\ data = <<>>
    /\ packageType = "basic"
    /\ processed = "none"
    /\ forecast = <<>>
    /\ weatherData = <<>>
    /\ store = EmptyStore
    /\ query = NoQuery

\* The data of a session that has not been started.
DataIdle ==
    /\ ForecastIdle
    /\ account = NoAccount

\* The account state plugin.start leaves: both account timers are set.
StartedAccount ==
    [NoAccount EXCEPT !.timeoutPending = TRUE, !.accountCheckInterval = TRUE]

\* The data of a session that has just been started.
DataStarted ==
    /\ ForecastIdle
    /\ account = StartedAccount

\* state.currentConfig = undefined; the interval of shouldUpdateForecast
\* then defaults to 120.
NoConfig ==
    [defined |-> FALSE, enableAutoMovingForecast |-> FALSE,
     maxForecastHours |-> 0, maxForecastDays |-> 0,
     hourlyPackages |-> {}, dailyPackages |-> {},
     movingSpeedThreshold |-> MovingSpeedThreshold,
     forecastInterval |-> ForecastIntervalMinutes]

\* The configuration plugin.start builds from its defaults and the options:
\* hourlyPackages and dailyPackages are the package types whose enable
\* flag is set for the granularity.
PackageConfig(auto, hours, days, hourly, daily) ==
    [defined |-> TRUE, enableAutoMovingForecast |-> auto,
     maxForecastHours |-> hours, maxForecastDays |-> days,
     hourlyPackages |-> hourly, dailyPackages |-> daily,
     movingSpeedThreshold |-> MovingSpeedThreshold,
     forecastInterval |-> ForecastIntervalMinutes]

\* A configuration with the basic package enabled for both granularities.
Config(auto, hours) ==
    PackageConfig(auto, hours, MaxForecastDays, {"basic"}, {"basic"})

Init ==
    /\ options = Config(TRUE, MaxForecastHours)
    /\ currentConfig = NoConfig
    /\ navigationSubscriptions = FALSE
    /\ forecastInterval = NoTimer
    /\ initialFetchPending = FALSE
    /\ currentPosition = NullPos
    /\ currentHeading = NoValue
    /\ currentSOG = NoValue
    /\ lastForecastUpdate = 0
    /\ movingForecastEngaged = FALSE
    /\ lastCommand = "none"
    /\ now = StartHour
    /\ cycle = <<>>
    /\ ended = Summary(IdleCycle)
    /\ output = NoOutput
    /\ DataIdle

\* plugin.start with an API key configured: the subscription, the PUT
\* handler, the periodic timers and the start-up timeouts are set up.
Start ==
    /\ ~currentConfig.defined
    /\ ~initialFetchPending
    /\ currentConfig' = options
    /\ navigationSubscriptions' = TRUE
    /\ forecastInterval' = options.forecastInterval \div 60
    /\ initialFetchPending' = TRUE
    /\ account' = [account EXCEPT !.timeoutPending = TRUE,
                                   !.accountCheckInterval = TRUE,
                                   !.checked = NoValue,
                                   !.published = "none"]
    /\ UNCHANGED <<options, currentPosition, currentHeading, currentSOG,
                   lastForecastUpdate, movingForecastEngaged, lastCommand,
                   now, cycle, forecastVars>>
    /\ ended' = Summary(IdleCycle)
    /\ output' = EngagedDelta(movingForecastEngaged)

EngagedAfterStopKept == movingForecastEngaged

\* The value plugin.stop assigns to state.movingForecastEngaged.
EngagedAfterStop == FALSE

\* plugin.stop: the start-up timeout is not cleared, and cycles in flight
\* run on.
Stop ==
    /\ currentConfig.defined
    /\ forecastInterval' = NoTimer
    /\ navigationSubscriptions' = FALSE
    /\ currentConfig' = NoConfig
    /\ currentPosition' = NullPos
    /\ lastForecastUpdate' = 0
    /\ movingForecastEngaged' = EngagedAfterStop
    /\ lastCommand' = "none"
    /\ account' = [account EXCEPT !.accountInfo = NoValue,
                                   !.accountCheckInterval = FALSE,
                                   !.checked = NoValue,
                                   !.published = "none"]
    /\ UNCHANGED <<options, initialFetchPending, currentHeading, currentSOG,
                   now, cycle, forecastVars>>
    /\ ended' = Summary(IdleCycle)
    /\ output' = NoOutput

\* The subscription callback on a navigation.headingTrue value.
HeadingEvent(value) ==
    /\ navigationSubscriptions
    /\ currentHeading' = value
    /\ UNCHANGED <<options, currentConfig, navigationSubscriptions,
                   forecastInterval, initialFetchPending, currentPosition,
                   currentSOG, lastForecastUpdate, movingForecastEngaged,
                   lastCommand, now, cycle, dataVars>>
    /\ ended' = Summary(IdleCycle)
    /\ output' = NoOutput

AutoEnableAlways(value) ==
    /\ IsVesselMoving(value, currentConfig.movingSpeedThreshold)
    /\ ~movingForecastEngaged

\* The auto-enable condition of the subscription callback.
AutoEnable(value) ==
    /\ currentConfig.enableAutoMovingForecast
    /\ IsVesselMoving(value, currentConfig.movingSpeedThreshold)
    /\ ~movingForecastEngaged

SOGEventFollowingSpeed(value) ==
    /\ navigationSubscriptions
    /\ currentSOG' = value
    /\ movingForecastEngaged' =
           IsVesselMoving(value, currentConfig.movingSpeedThreshold)
    /\ UNCHANGED <<options, currentConfig, navigationSubscriptions,
                   forecastInterval, initialFetchPending, currentPosition,
                   currentHeading, lastForecastUpdate, lastCommand, now, cycle,
                   dataVars>>
    /\ ended' = Summary(IdleCycle)
    /\ output' = NoOutput

\* The subscription callback on a navigation.speedOverGround value.
SOGEvent(value) ==
    /\ navigationSubscriptions
    /\ currentSOG' = value
    /\ movingForecastEngaged' =
           IF AutoEnable(value) THEN TRUE ELSE movingForecastEngaged
    /\ UNCHANGED <<options, currentConfig, navigationSubscriptions,
                   forecastInterval, initialFetchPending, currentPosition,
                   currentHeading, lastForecastUpdate, lastCommand, now, cycle,
                   dataVars>>
    /\ ended' = Summary(IdleCycle)
    /\ output' = IF AutoEnable(value) THEN EngagedDelta(TRUE) ELSE NoOutput

\* A trigger starts a cycle; capacity bounds the cycles in flight.
StartCycle(trigger, position, cp, capacity) ==
    /\ Len(cycle) < capacity
    /\ Settle(Len(cycle) + 1, Dispatch(NewCycle(trigger, cp), position, cp), cp)

\* The subscription callback on a navigation.position value.
PositionEvent(position, capacity) ==
    /\ navigationSubscriptions
    /\ LET cp == IF currentPosition.kind = "null"
                 THEN position ELSE currentPosition
           reason == ShouldUpdateReason(position, cp)
       IN  IF reason # "none" /\ currentConfig.defined
           THEN StartCycle(reason, position, cp, capacity)
           ELSE /\ currentPosition' = cp
                /\ ended' = Summary(IdleCycle)
                /\ UNCHANGED <<cycle, lastForecastUpdate>>
    /\ UNCHANGED <<options, currentConfig, navigationSubscriptions,
                   forecastInterval, initialFetchPending, currentHeading,
                   currentSOG, movingForecastEngaged, lastCommand, now,
                   dataVars>>
    /\ output' = NoOutput

\* The PUT handler of commands.meteoblue.engaged on a boolean value: it
\* sets the flag, publishes it and returns COMPLETED.  The host removes the
\* handler when the plugin stops.
PutHandler(value) ==
    /\ currentConfig.defined
    /\ movingForecastEngaged' = value
    /\ lastCommand' = IF value THEN "true" ELSE "false"
    /\ UNCHANGED <<options, currentConfig, navigationSubscriptions,
                   forecastInterval, initialFetchPending, currentPosition,
                   currentHeading, currentSOG, lastForecastUpdate, now, cycle,
                   dataVars>>
    /\ ended' = Summary(IdleCycle)
    /\ output' = [state |-> "COMPLETED", statusCode |-> NoValue,
                  published |-> <<value>>]

\* The values a PUT request may carry: the booleans, a string and a number;
\* bool is the boolean itself, or what the value would coerce to.
CommandValues ==
    {[type |-> "boolean", bool |-> TRUE], [type |-> "boolean", bool |-> FALSE],
     [type |-> "string", bool |-> TRUE], [type |-> "number", bool |-> TRUE]}

IsBooleanCoerced(value) == TRUE

\* typeof value === "boolean"
IsBoolean(value) == value.type = "boolean"

\* The PUT handler of commands.meteoblue.engaged on any value: a value that
\* is not a boolean is reported and answered with FAILURE and status 400.
PutRequest(value) ==
    IF IsBoolean(value)
    THEN PutHandler(value.bool)
    ELSE /\ currentConfig.defined
         /\ output' = [state |-> "FAILURE", statusCode |-> BadRequest,
                       published |-> <<>>]
         /\ ended' = Summary(IdleCycle)
         /\ UNCHANGED <<options, currentConfig, navigationSubscriptions,
                        forecastInterval, initialFetchPending,
                        currentPosition, currentHeading, currentSOG,
                        lastForecastUpdate, movingForecastEngaged,
                        lastCommand, now, cycle, dataVars>>

\* The setInterval callback of plugin.start.
PeriodicTimer(capacity) ==
    /\ forecastInterval = 0
    /\ forecastInterval' = options.forecastInterval \div 60
    /\ IF currentPosition.kind # "null"
       THEN StartCycle("periodic", currentPosition, currentPosition, capacity)
       ELSE /\ ended' = Summary(IdleCycle)
            /\ UNCHANGED <<cycle, lastForecastUpdate, currentPosition>>
    /\ UNCHANGED <<options, currentConfig, navigationSubscriptions,
                   initialFetchPending, currentHeading, currentSOG,
                   movingForecastEngaged, lastCommand, now, dataVars>>
    /\ output' = NoOutput

\* The start-up setTimeout callback of plugin.start.
InitialFetch(capacity) ==
    /\ initialFetchPending
    /\ initialFetchPending' = FALSE
    /\ IF currentPosition.kind # "null"
       THEN StartCycle("initial", currentPosition, currentPosition, capacity)
       ELSE /\ ended' = Summary(IdleCycle)
            /\ UNCHANGED <<cycle, lastForecastUpdate, currentPosition>>
    /\ UNCHANGED <<options, currentConfig, navigationSubscriptions,
                   forecastInterval, currentHeading, currentSOG,
                   movingForecastEngaged, lastCommand, now, dataVars>>
    /\ output' = NoOutput

\* An hour passes; a timer that is due fires first.
Tick ==
    /\ now < MaxNow
    /\ ~initialFetchPending
    /\ forecastInterval # 0
    /\ now' = now + 1
    /\ forecastInterval' =
           IF forecastInterval = NoTimer THEN NoTimer ELSE forecastInterval - 1
    /\ UNCHANGED <<options, currentConfig, navigationSubscriptions,
                   initialFetchPending, currentPosition, currentHeading,
                   currentSOG, lastForecastUpdate, movingForecastEngaged,
                   lastCommand, cycle, dataVars>>
    /\ ended' = Summary(IdleCycle)
    /\ output' = NoOutput

Unchanged_session ==
    /\ UNCHANGED <<options, currentConfig, navigationSubscriptions,
                   forecastInterval, initialFetchPending, currentHeading,
                   currentSOG, movingForecastEngaged, lastCommand, now,
                   dataVars>>
    /\ output' = NoOutput

NeedsPacingAlways(c) == TRUE

\* The condition of the pacing delay at the end of the loop body.
NeedsPacing(c) == c.hour < options.maxForecastHours - 1

\* The per-hour fetch of cycle i returns: resp is its outcome and frame the
\* frame of the response.  The frame counts when it has data_1h with a
\* time; the record of the target hour, if processing finds it, is added
\* for every enabled hourly package.
HourFrameResponse(i, resp, frame) ==
    /\ cycle[i].pc = "hourFetch"
    /\ LET c == cycle[i]
           block == frame.hourly
           times == block.times
           targetTime == c.currentHour + c.hour
           found == /\ block.present
                    /\ block.timeValid
                    /\ HasTargetForecast(times, targetTime, now)
           rowExists == \E k \in 1..Len(times) : times[k] = targetTime
           hourForecast(type) ==
               HourForecast(
                   HourlyForecastRecord(ProviderRow(block, targetTime), type),
                   c.predictedPos)
           c1 == [c EXCEPT
                    !.acc = IF found THEN Append(@, c.hour) ELSE @,
                    !.missed = @ \/ (rowExists /\ ~found),
                    !.allHourlyForecasts =
                        [type \in DOMAIN @ |->
                            IF found
                            THEN Append(@[type], hourForecast(type))
                            ELSE @[type]]]
       IN  IF resp # "ok"
           THEN Settle(i, MovingCatch([c EXCEPT !.failed = TRUE,
                                                !.hourFailed = TRUE],
                                      currentPosition),
                       currentPosition)
           ELSE IF NeedsPacing(c)
           THEN Settle(i, [c1 EXCEPT !.pc = "pacing"], currentPosition)
           ELSE Settle(i, AfterLoop(c1, currentPosition), currentPosition)
    /\ Unchanged_session

\* The same with a frame of the session runs; rows is the length of
\* data_1h.time.
HourResponse(i, resp, rows) ==
    HourFrameResponse(i, resp, SessionFrame(rows, now))

\* The pacing delay of cycle i has elapsed: the loop goes on to the next hour.
PacingDone(i) ==
    /\ cycle[i].pc = "pacing"
    /\ Settle(i, LoopTop(cycle[i], cycle[i].hour + 1, currentPosition),
              currentPosition)
    /\ Unchanged_session

\* The reports of a block without a time array that processing a block
\* for the packages of a list makes: one for each package.
DataErrors(block, types) ==
    IF block.present /\ ~block.timeValid THEN Len(types) ELSE 0

DailyPublicationsOfWholeFrames(by, frame, cp) ==
    IF frame.daily.present /\ frame.hourly.timeValid
    THEN PackagePublications(by, "daily", GetEnabledPackages(options).daily,
                             FrameSeries(frame, options, now).daily, cp)
    ELSE <<>>

\* The daily processing of both fetch functions on a frame: the
\* publications of the enabled daily packages.
DailyPublications(by, frame, cp) ==
    IF frame.daily.present
    THEN PackagePublications(by, "daily", GetEnabledPackages(options).daily,
                             FrameSeries(frame, options, now).daily, cp)
    ELSE <<>>

\* The hourly processing of fetchForecast on a frame.
HourlyPublications(by, frame, cp) ==
    IF frame.hourly.present
    THEN PackagePublications(by, "hourly", GetEnabledPackages(options).hourly,
                             FrameSeries(frame, options, now).hourly, cp)
    ELSE <<>>

\* The daily fetch of a moving cycle returns.  A response that is not ok is
\* skipped without a report; a fetch or parse error goes to the catch.
DailyFrameResponse(i, resp, frame) ==
    /\ cycle[i].pc = "dailyFetch"
    /\ LET c == cycle[i]
       IN  CASE resp = "net_error" ->
                    Settle(i, MovingCatch([c EXCEPT !.failed = TRUE],
                                          currentPosition),
                           currentPosition)
             [] resp = "http_error" ->
                    Settle(i, Done([c EXCEPT !.failed = TRUE,
                                             !.advanced = TRUE]),
                           Spread(currentPosition))
             [] OTHER ->
                    Settle(i,
                           Done([c EXCEPT
                                   !.advanced = TRUE,
                                   !.published =
                                       @ \o DailyPublications("moving", frame,
                                                              currentPosition),
                                   !.dataErrors =
                                       @ + DataErrors(
                                               frame.daily,
                                               GetEnabledPackages(options).daily)]),
                           Spread(currentPosition))
    /\ Unchanged_session

DailyResponse(i, resp) ==
    DailyFrameResponse(i, resp, SessionFrame(StatRows, now))

\* The fetch of fetchForecast returns: on a frame it publishes the
\* metadata, then the hourly and the daily records of every enabled
\* package.
StatFrameResponse(i, resp, frame) ==
    /\ cycle[i].pc = "statFetch"
    /\ LET c == cycle[i]
           enabled == GetEnabledPackages(options)
           metadata == Publication("stationary", "metadata", "metadata", <<>>,
                                   currentPosition)
       IN  IF resp = "ok"
           THEN Settle(i,
                       Done([c EXCEPT
                               !.advanced = TRUE,
                               !.frame = frame,
                               !.published =
                                   @ \o <<metadata>>
                                     \o HourlyPublications("stationary", frame,
                                                           currentPosition)
                                     \o DailyPublications("stationary", frame,
                                                          currentPosition),
                               !.dataErrors =
                                   @ + DataErrors(frame.hourly, enabled.hourly)
                                     + DataErrors(frame.daily, enabled.daily)]),
                       Spread(c.position))
           ELSE Settle(i, Done([c EXCEPT !.failed = TRUE, !.reported = TRUE,
                                         !.advanced = TRUE]),
                       currentPosition)
    /\ Unchanged_session

StatResponse(i, resp) ==
    StatFrameResponse(i, resp, SessionFrame(StatRows, now))

Next ==
    \/ Start
    \/ Stop
    \/ \E value \in HeadingChoices : HeadingEvent(value)
    \/ \E value \in SogChoices : SOGEvent(value)
    \/ \E position \in PositionChoices : PositionEvent(position, MaxCycles)
    \/ \E value \in CommandValues : PutRequest(value)
    \/ PeriodicTimer(MaxCycles)
    \/ InitialFetch(MaxCycles)
    \/ Tick
    \/ \E i \in Slots, resp \in Responses, rows \in FrameRowChoices :
           HourResponse(i, resp, rows)
    \/ \E i \in Slots : PacingDone(i)
    \/ \E i \in Slots, resp \in Responses : DailyResponse(i, resp)
    \/ \E i \in Slots, resp \in Responses : StatResponse(i, resp)

Spec == Init /\ [][Next]_vars

(* ----------------------- other specifications ------------------------- *)

\* The session with auto-enable configured off.
InitManual ==
    /\ options = Config(FALSE, MaxForecastHours)
    /\ currentConfig = NoConfig
    /\ navigationSubscriptions = FALSE
    /\ forecastInterval = NoTimer
    /\ initialFetchPending = FALSE
    /\ currentPosition = NullPos
    /\ currentHeading = NoValue
    /\ currentSOG = NoValue
    /\ lastForecastUpdate = 0
    /\ movingForecastEngaged = FALSE
    /\ lastCommand = "none"
    /\ now = StartHour
    /\ cycle = <<>>
    /\ ended = Summary(IdleCycle)
    /\ output = NoOutput
    /\ DataIdle

SpecManual == InitManual /\ [][Next]_vars

\* A session that has just started and received heading and speed, in
\* which triggers may overlap: the clock stands still and the session is
\* not stopped.
InitOverlap ==
    /\ options = Config(TRUE, MaxForecastHours)
    /\ currentConfig = options
    /\ navigationSubscriptions = TRUE
    /\ forecastInterval = options.forecastInterval \div 60
    /\ initialFetchPending = TRUE
    /\ currentPosition = NullPos
    /\ currentHeading = HeadingSouth
    /\ currentSOG \in SogChoices
    /\ lastForecastUpdate = 0
    /\ movingForecastEngaged
           = IsVesselMoving(currentSOG, options.movingSpeedThreshold)
    /\ lastCommand = "none"
    /\ now = StartHour
    /\ cycle = <<>>
    /\ ended = Summary(IdleCycle)
    /\ output = NoOutput
    /\ DataStarted

NextOverlap ==
    \/ \E position \in PositionChoices : PositionEvent(position, OverlapCycles)
    \/ InitialFetch(OverlapCycles)
    \/ \E i \in Slots, resp \in Responses, rows \in FrameRowChoices :
           HourResponse(i, resp, rows)
    \/ \E i \in Slots : PacingDone(i)
    \/ \E i \in Slots, resp \in Responses : DailyResponse(i, resp)
    \/ \E i \in Slots, resp \in Responses : StatResponse(i, resp)

SpecOverlap == InitOverlap /\ [][NextOverlap]_vars

\* A vessel under way that slows down or is commanded: a started session
\* with a heading, 5 knots and engagement, after its start-up fetch and
\* awaiting its first position, in which triggers may overlap and
\* engagement may be commanded off; the clock stands still and the session
\* is not stopped.
InitSlowdown ==
    /\ options = Config(TRUE, MaxForecastHours)
    /\ currentConfig = options
    /\ navigationSubscriptions = TRUE
    /\ forecastInterval = options.forecastInterval \div 60
    /\ initialFetchPending = FALSE
    /\ currentPosition = NullPos
    /\ currentHeading = HeadingSouth
    /\ currentSOG = FiveKnots
    /\ lastForecastUpdate = 0
    /\ movingForecastEngaged = TRUE
    /\ lastCommand = "none"
    /\ now = StartHour
    /\ cycle = <<>>
    /\ ended = Summary(IdleCycle)
    /\ output = NoOutput
    /\ DataStarted

NextSlowdown ==
    \/ \E value \in SogChoices : SOGEvent(value)
    \/ PutRequest([type |-> "boolean", bool |-> FALSE])
    \/ \E position \in PositionChoices : PositionEvent(position, OverlapCycles)
    \/ \E i \in Slots, resp \in Responses, rows \in FrameRowChoices :
           HourResponse(i, resp, rows)
    \/ \E i \in Slots : PacingDone(i)
    \/ \E i \in Slots, resp \in Responses : DailyResponse(i, resp)
    \/ \E i \in Slots, resp \in Responses : StatResponse(i, resp)

SpecSlowdown == InitSlowdown /\ [][NextSlowdown]_vars

\* A vessel that reports one position, more than 9260 m north of the one
\* its last forecast was fetched for: a started session after its start-up
\* fetch and a first completed cycle at the equator, with heading and speed
\* received and engagement commands possible; the clock stands still, and
\* every cycle is started by a position event at that position.
FarPosition == Pos(UpdateDistanceMeters * LatUnitsPerMeter + 1)

InitRetry ==
    /\ options = Config(TRUE, MaxForecastHours)
    /\ currentConfig = options
    /\ navigationSubscriptions = TRUE
    /\ forecastInterval = options.forecastInterval \div 60
    /\ initialFetchPending = FALSE
    /\ currentPosition = Pos(0)
    /\ currentHeading = HeadingSouth
    /\ currentSOG \in SogChoices
    /\ now = StartHour
    /\ lastForecastUpdate = DateNow
    /\ movingForecastEngaged
           = IsVesselMoving(currentSOG, options.movingSpeedThreshold)
    /\ lastCommand = "none"
    /\ cycle = <<>>
    /\ ended = Summary(IdleCycle)
    /\ output = NoOutput
    /\ DataStarted

NextRetry ==
    \/ PositionEvent(FarPosition, MaxCycles)
    \/ \E value \in HeadingChoices : HeadingEvent(value)
    \/ \E value \in SogChoices : SOGEvent(value)
    \/ \E value \in CommandValues : PutRequest(value)
    \/ \E i \in Slots, resp \in Responses, rows \in FrameRowChoices :
           HourResponse(i, resp, rows)
    \/ \E i \in Slots : PacingDone(i)
    \/ \E i \in Slots, resp \in Responses : DailyResponse(i, resp)
    \/ \E i \in Slots, resp \in Responses : StatResponse(i, resp)

SpecRetry == InitRetry /\ [][NextRetry]_vars

\* The cycle in slot i takes its next step: its fetch returns or fails, or
\* its pacing timer fires.  The frames are those of HourResponse,
\* DailyResponse and StatResponse.
CycleStepOf(i) ==
    /\ i \in Slots
    /\ \/ \E resp \in Responses, rows \in FrameRowChoices :
              \E frame \in {SessionFrame(rows, now)} :
                  HourFrameResponse(i, resp, frame)
       \/ PacingDone(i)
       \/ \E resp \in Responses :
              \E frame \in {SessionFrame(StatRows, now)} :
                  DailyFrameResponse(i, resp, frame)
       \/ \E resp \in Responses :
              \E frame \in {SessionFrame(StatRows, now)} :
                  StatFrameResponse(i, resp, frame)

\* A cycle in flight takes its next step.
CycleStep == \E i \in Slots : CycleStepOf(i)

\* A session in which every provider fetch eventually returns or fails and
\* the pacing delay eventually passes: it starts as the overlapping session
\* does, runs MaxCycles cycles at a time at most, and may be stopped and
\* started again.
NextFair ==
    \/ Start
    \/ Stop
    \/ \E position \in PositionChoices : PositionEvent(position, MaxCycles)
    \/ InitialFetch(MaxCycles)
    \/ CycleStep

\* fetch settles every request, and setTimeout fires every timer: no cycle
\* in flight waits for ever.
FetchesReturn == \A i \in 1..MaxCycles : WF_vars(CycleStepOf(i))

SpecFair == InitOverlap /\ [][NextFair]_vars /\ FetchesReturn

\* The moving-vessel assembler at every hour of the day: a started session
\* with heading, speed and engagement set, awaiting its first position, a
\* forecast of HourSpecForecastHours hours and provider frames of
\* HourSpecRows hourly rows from local midnight.
InitHour ==
    /\ options = Config(TRUE, HourSpecForecastHours)
    /\ currentConfig = options
    /\ navigationSubscriptions = TRUE
    /\ forecastInterval = options.forecastInterval \div 60
    /\ initialFetchPending = FALSE
    /\ currentPosition = NullPos
    /\ currentHeading = HeadingSouth
    /\ currentSOG = FiveKnots
    /\ lastForecastUpdate = 0
    /\ movingForecastEngaged = TRUE
    /\ lastCommand = "none"
    /\ now \in 0..(HoursPerDay - 1)
    /\ cycle = <<>>
    /\ ended = Summary(IdleCycle)
    /\ output = NoOutput
    /\ DataStarted

NextHour ==
    \/ PositionEvent(Pos(0), MaxCycles)
    \/ \E i \in Slots, resp \in Responses : HourResponse(i, resp, HourSpecRows)
    \/ \E i \in Slots : PacingDone(i)
    \/ \E i \in Slots, resp \in Responses : DailyResponse(i, resp)
    \/ \E i \in Slots, resp \in Responses : StatResponse(i, resp)

SpecHour == InitHour /\ [][NextHour]_vars

sessionVars ==
    <<options, currentConfig, navigationSubscriptions, forecastInterval,
      initialFetchPending, currentPosition, currentHeading, currentSOG,
      lastForecastUpdate, movingForecastEngaged, lastCommand, now, cycle,
      ended, output>>

\* A provider row waits to be processed for a package; the session is as
\* plugin.start finds it.
InitData ==
    /\ options = Config(TRUE, MaxForecastHours)
    /\ currentConfig = NoConfig
    /\ navigationSubscriptions = FALSE
    /\ forecastInterval = NoTimer
    /\ initialFetchPending = FALSE
    /\ currentPosition = NullPos
    /\ currentHeading = NoValue
    /\ currentSOG = NoValue
    /\ lastForecastUpdate = 0
    /\ movingForecastEngaged = FALSE
    /\ lastCommand = "none"
    /\ now = 0
    /\ cycle = <<>>
    /\ ended = Summary(IdleCycle)
    /\ output = NoOutput
    /\ data \in Frames
    /\ packageType \in Packages
    /\ processed = "none"
    /\ forecast = <<>>
    /\ weatherData = <<>>
    /\ store = EmptyStore
    /\ query = NoQuery
    /\ account = NoAccount

\* processHourlyForecastForPackage on the row.
ProcessHourly ==
    /\ processed = "none"
    /\ processed' = "hourly"
    /\ forecast' = HourlyForecastRecord(data, packageType)
    /\ UNCHANGED <<data, packageType, weatherData, store, query, account,
                   sessionVars>>

\* processDailyForecastForPackage on the row.
ProcessDaily ==
    /\ processed = "none"
    /\ processed' = "daily"
    /\ forecast' = DailyForecastRecord(data, packageType)
    /\ UNCHANGED <<data, packageType, weatherData, store, query, account,
                   sessionVars>>

\* The package fields of the granularity that was processed.
ProcessedFields ==
    IF processed = "daily"
    THEN GetDailyPackageFields(packageType)
    ELSE GetHourlyPackageFields(packageType)

\* An observation query converts the published hourly record.
ConvertObservation ==
    /\ processed = "hourly"
    /\ weatherData = <<>>
    /\ weatherData' =
           ConvertToWeatherAPIObservation(ForecastData(forecast, ProcessedFields))
    /\ UNCHANGED <<data, packageType, processed, forecast, store, query,
                   account, sessionVars>>

\* A forecast query converts the published hourly or daily record.
ConvertForecast ==
    /\ processed # "none"
    /\ weatherData = <<>>
    /\ weatherData' =
           ConvertToWeatherAPIForecast(
               ForecastData(forecast, ProcessedFields),
               IF processed = "daily" THEN "daily" ELSE "point")
    /\ UNCHANGED <<data, packageType, processed, forecast, store, query,
                   account, sessionVars>>

NextData ==
    \/ ProcessHourly
    \/ ProcessDaily
    \/ ConvertObservation
    \/ ConvertForecast

SpecData == InitData /\ [][NextData]_vars

\* The package selections of the runs that follow what cycles publish.
PublishSelections ==
    {<<{}, {}>>, <<{"basic"}, {"basic"}>>, <<{"wind", "sea"}, {"clouds"}>>,
     <<{"solar"}, {}>>, <<{}, {"wind"}>>}

\* The frames of those runs at hour t: data_1h with StatRows rows from the
\* local midnight, without time, or missing, and data_day likewise with one
\* row more than config.maxForecastDays.
PublishFrames(t) ==
    LET midnight == t - (t % HoursPerDay)
    IN  {Frame(hourly, daily) :
            hourly \in {Block(FrameTimes(StatRows, t), AllFields, One, {}),
                        NoTimeBlock, NoBlock},
            daily \in {Block(BlockTimes(MaxForecastDays + 1, HoursPerDay,
                                        midnight),
                             AllFields, One, {}),
                       NoTimeBlock, NoBlock}}

\* A session that has just started with one of the package selections and
\* received heading and speed; the clock stands still.
InitPublish ==
    /\ options \in {PackageConfig(TRUE, MaxForecastHours, MaxForecastDays,
                                  p[1], p[2]) : p \in PublishSelections}
    /\ currentConfig = options
    /\ navigationSubscriptions = TRUE
    /\ forecastInterval = options.forecastInterval \div 60
    /\ initialFetchPending = TRUE
    /\ currentPosition = NullPos
    /\ currentHeading = HeadingSouth
    /\ currentSOG \in SogChoices
    /\ lastForecastUpdate = 0
    /\ movingForecastEngaged
           = IsVesselMoving(currentSOG, options.movingSpeedThreshold)
    /\ lastCommand = "none"
    /\ now = StartHour
    /\ cycle = <<>>
    /\ ended = Summary(IdleCycle)
    /\ output = NoOutput
    /\ DataStarted

NextPublish ==
    \/ \E position \in PositionChoices : PositionEvent(position, MaxCycles)
    \/ InitialFetch(MaxCycles)
    \/ \E i \in Slots, resp \in Responses, frame \in PublishFrames(now) :
           HourFrameResponse(i, resp, frame)
    \/ \E i \in Slots : PacingDone(i)
    \/ \E i \in Slots, resp \in Responses, frame \in PublishFrames(now) :
           DailyFrameResponse(i, resp, frame)
    \/ \E i \in Slots, resp \in Responses, frame \in PublishFrames(now) :
           StatFrameResponse(i, resp, frame)

SpecPublish == InitPublish /\ [][NextPublish]_vars

(* ------------------- published forecasts and queries ------------------ *)

\* The Weather API defaults of getForecasts for a missing count.
DefaultForecastDays == 10
DefaultForecastHours == 72
\* The index scan of the readers looks this far beyond the requested count.
ScanBeyond == 10
\* The usage percentages from which checkApiLimits alerts and warns.
UsageAlert == 90
UsageWarn == 80

\* config.maxForecastHours and config.maxForecastDays of the runs that
\* follow the host's tree, the rows of the provider's blocks in them, and
\* the publications they follow.
StoreForecastCount == 12
StoreRowChoices == {0, 1, 2, 12}
MaxPublications == 2
\* Account usage requests in flight.
MaxAccountChecks == 2

\* The values of the delta that publishHourlyForecasts and
\* publishDailyForecasts hand to the host for one record, by key: every key
\* of the record but the skipped one, and forecastPosition when a latitude
\* and a longitude are known.  On the prime meridian predictedLongitude is
\* 0, so that the longitude is that of state.currentPosition (cp).
DeltaValues(record, skipped, cp) ==
    LET keys == DOMAIN record \ {skipped}
        predicted == /\ "predictedLatitude" \in DOMAIN record
                     /\ record["predictedLatitude"] # 0
        position == IF cp.kind = "pos" THEN {"forecastPosition"} ELSE {}
    IN  [key \in keys \cup position |->
            IF key \in keys THEN record[key]
            ELSE IF predicted THEN record["predictedLatitude"]
            ELSE cp.latitude]

\* The host's tree after it has handled the deltas of one call of
\* publishHourlyForecasts or publishDailyForecasts: the record at position
\* k of forecasts is written to index k - 1, over the values the index has.
PublishForecasts(tree, forecasts, skipped, cp) ==
    [k \in 1..Max(Len(tree), Len(forecasts)) |->
        IF k > Len(forecasts)
        THEN tree[k]
        ELSE LET old == IF k <= Len(tree) THEN tree[k] ELSE <<>>
                 new == DeltaValues(forecasts[k], skipped, cp)
             IN  [key \in DOMAIN old \cup DOMAIN new |->
                     IF key \in DOMAIN new THEN new[key] ELSE old[key]]]

\* The tree after the series of every package of a list has been published,
\* in the order of the list; series gives the records by package type.
RECURSIVE PublishPackages(_, _, _, _, _)
PublishPackages(tree, types, series, skipped, cp) ==
    IF types = <<>>
    THEN tree
    ELSE PublishPackages(
             PublishForecasts(tree, series[Head(types)], skipped, cp),
             Tail(types), series, skipped, cp)

\* The tree after fetchForecast has processed and published a frame.
StoreAfterFrame(tree, frame, config, t, cp) ==
    LET enabled == GetEnabledPackages(config)
        series == FrameSeries(frame, config, t)
    IN  [tree EXCEPT
            !.hourly =
                IF frame.hourly.present
                THEN PublishPackages(@, enabled.hourly, series.hourly,
                                     "timestamp", cp)
                ELSE @,
            !.daily =
                IF frame.daily.present
                THEN PublishPackages(@, enabled.daily, series.daily,
                                     "date", cp)
                ELSE @]

\* app.getSelfPath on a key at an index: data && data.value !== undefined
HasValue(tree, key, i) == i + 1 <= Len(tree) /\ key \in DOMAIN tree[i + 1]

\* The fields the readers test an index for.
HourlyTestFields == {"temperature", "windspeed", "seasurfacetemperature", "uvindex"}
DailyTestFields == {"temperature_max", "windspeed_max", "uvindex"}

HasDataForIndex(tree, testFields, i) ==
    \E testField \in testFields : HasValue(tree, testField, i)

\* The index scan of the readers: the indices tested from i on, up to the
\* first without data and short of limit.
RECURSIVE IndexScan(_, _, _, _)
IndexScan(tree, testFields, i, limit) ==
    IF i >= limit
    THEN <<>>
    ELSE IF HasDataForIndex(tree, testFields, i)
    THEN <<i>> \o IndexScan(tree, testFields, i + 1, limit)
    ELSE <<i>>

\* forecastCount of the scan: one more than the last index with data.
ForecastCount(tree, testFields, probes) ==
    Cardinality({k \in 1..Len(probes) :
                     HasDataForIndex(tree, testFields, probes[k])})

ActualCountUncapped(forecastCount, maxCount) == forecastCount

\* actualCount of the readers
ActualCount(forecastCount, maxCount) == Min(forecastCount, maxCount)

\* The fields the readers read at each index: those of the package lists
\* of the enabled packages of state.currentConfig.
ReaderFields(type) ==
    IF ~currentConfig.defined
    THEN {}
    ELSE IF type = "daily"
    THEN UNION {GetDailyPackageFields(t) : t \in currentConfig.dailyPackages}
    ELSE UNION {GetHourlyPackageFields(t) : t \in currentConfig.hourlyPackages}

\* forecastData of an index: the reader's fields that have a value there.
ReadForecastData(tree, fields, i) ==
    [field \in {f \in fields : HasValue(tree, f, i)} |-> tree[i + 1][field]]

\* getHourlyForecastsFromSignalK and getDailyForecastsFromSignalK: what the
\* reader tests and reads, and the records it returns.  The timestamp it
\* generates for a record is left out, as in the conversion.
GetForecastsFromSignalK(type, maxCount) ==
    LET tree == IF type = "daily" THEN store.daily ELSE store.hourly
        testFields == IF type = "daily" THEN DailyTestFields
                      ELSE HourlyTestFields
        hasData == HasDataForIndex(tree, testFields, 0)
        probes == IF hasData
                  THEN IndexScan(tree, testFields, 0, maxCount + ScanBeyond)
                  ELSE <<>>
        actualCount ==
            ActualCount(ForecastCount(tree, testFields, probes), maxCount)
        fields == ReaderFields(type)
        indices == SelectSeq([k \in 1..Max(actualCount, 0) |-> k - 1],
                             LAMBDA i : DOMAIN ReadForecastData(tree, fields, i) # {})
    IN  [method |-> "getForecasts", type |-> type, maxCount |-> maxCount,
         checked |-> TRUE, probes |-> probes, indices |-> indices,
         forecasts |->
             [k \in 1..Len(indices) |->
                 ConvertToWeatherAPIForecast(
                     ReadForecastData(tree, fields, indices[k]), type)]]

HasEnabledPackagesOfAny(type) ==
    currentConfig.dailyPackages # {} \/ currentConfig.hourlyPackages # {}

\* Whether a package of the granularity is enabled in state.currentConfig.
HasEnabledPackages(type) ==
    IF type = "daily"
    THEN currentConfig.dailyPackages # {}
    ELSE currentConfig.hourlyPackages # {}

\* options?.maxCount || defaultCount; requested is 0 for a missing count.
QueryCount(type, requested) ==
    IF requested # 0 THEN requested
    ELSE IF type = "daily"
    THEN (IF currentConfig.maxForecastDays # 0
          THEN currentConfig.maxForecastDays ELSE DefaultForecastDays)
    ELSE (IF currentConfig.maxForecastHours # 0
          THEN currentConfig.maxForecastHours ELSE DefaultForecastHours)

\* weatherProvider.methods.getForecasts
GetForecasts(type, requested) ==
    /\ query' =
           IF ~currentConfig.defined \/ ~HasEnabledPackages(type)
           THEN [NoQuery EXCEPT !.method = "getForecasts", !.type = type,
                                !.maxCount = QueryCount(type, requested)]
           ELSE GetForecastsFromSignalK(type, QueryCount(type, requested))
    /\ UNCHANGED <<data, packageType, processed, forecast, weatherData, store,
                   account, sessionVars>>

\* weatherProvider.methods.getObservations and getWarnings: both return an
\* empty array.
GetObservations ==
    /\ query' = [NoQuery EXCEPT !.method = "getObservations"]
    /\ UNCHANGED <<data, packageType, processed, forecast, weatherData, store,
                   account, sessionVars>>

GetWarnings ==
    /\ query' = [NoQuery EXCEPT !.method = "getWarnings"]
    /\ UNCHANGED <<data, packageType, processed, forecast, weatherData, store,
                   account, sessionVars>>

\* The frames the provider returns at hour t when every quantity has the
\* given value: both blocks with the same number of rows, all of them with
\* values or the first one null; and frames in which one block is missing
\* or has no time array.
StoreFrames(value, t) ==
    LET hourly(rows, nulls) ==
            Block(BlockTimes(rows, 1, t), AllFields, value, nulls)
        daily(rows, nulls) ==
            Block(BlockTimes(rows, HoursPerDay, t), AllFields, value, nulls)
    IN  {Frame(hourly(rows, {}), daily(rows, {})) : rows \in StoreRowChoices}
            \cup {Frame(hourly(rows, {t}), daily(rows, {t})) :
                       rows \in StoreRowChoices \ {0}}
            \cup {Frame(NoTimeBlock, daily(2, {})),
                  Frame(hourly(2, {}), NoTimeBlock),
                  Frame(NoBlock, daily(2, {})),
                  Frame(hourly(2, {}), NoBlock)}

\* The package selections of the runs that follow the tree.
StorePackages ==
    {<<{"basic"}, {"basic"}>>, <<{"clouds"}, {"clouds"}>>,
     <<{"wind", "sea"}, {}>>, <<{}, {"solar"}>>, <<{"trend"}, {"wind"}>>}

\* The position of the session in those runs.
StorePosition == Pos(0)

\* A started session whose first position has been received at midnight and
\* whose first cycle has ended without a block to publish.
InitStore ==
    /\ options \in {PackageConfig(TRUE, StoreForecastCount, StoreForecastCount,
                                  p[1], p[2]) : p \in StorePackages}
    /\ currentConfig = options
    /\ navigationSubscriptions = TRUE
    /\ forecastInterval = options.forecastInterval \div 60
    /\ initialFetchPending = FALSE
    /\ currentPosition = StorePosition
    /\ currentHeading = NoValue
    /\ currentSOG = NoValue
    /\ now = HoursPerDay
    /\ lastForecastUpdate = DateNow
    /\ movingForecastEngaged = FALSE
    /\ lastCommand = "none"
    /\ cycle = <<>>
    /\ ended = Summary(IdleCycle)
    /\ output = NoOutput
    /\ DataStarted

\* A stationary cycle of the session from the response of its fetch on:
\* fetchForecast processes and publishes the frame and does its
\* bookkeeping.  The provider reports the number of the publication as the
\* value of every quantity.
FetchForecastFrame(frame) ==
    /\ currentConfig.defined
    /\ store.publications < MaxPublications
    /\ store' = [StoreAfterFrame(store, frame, options, now, currentPosition)
                    EXCEPT !.publications = @ + 1]
    /\ query' = NoQuery
    /\ lastForecastUpdate' = DateNow
    /\ currentPosition' = Spread(StorePosition)
    /\ ended' = Summary(IdleCycle)
    /\ output' = NoOutput
    /\ UNCHANGED <<options, currentConfig, navigationSubscriptions,
                   forecastInterval, initialFetchPending, currentHeading,
                   currentSOG, movingForecastEngaged, lastCommand, now, cycle,
                   data, packageType, processed, forecast, weatherData,
                   account>>

\* The counts a query may ask for; 0 stands for none.
CountChoices == {0, 1, 2}

NextStore ==
    \/ \E frame \in StoreFrames((store.publications + 1) * One, now) :
           FetchForecastFrame(frame)
    \/ \E type \in {"point", "daily"}, requested \in CountChoices :
           GetForecasts(type, requested)
    \/ GetObservations
    \/ GetWarnings
    \/ Stop

SpecStore == InitStore /\ [][NextStore]_vars

(* --------------------------- account checks --------------------------- *)

\* Usage percentages an account check may report.
UsageChoices == {0, 79, 80, 89, 90}

\* checkApiLimits: the state of the notification it publishes on
\* notifications.meteoblue.apiUsage, "none" when it publishes nothing;
\* stateAccountInfo is state.accountInfo at the time of the call.
CheckApiLimits(usagePercentage, stateAccountInfo) ==
    IF usagePercentage >= UsageAlert THEN "alert"
    ELSE IF usagePercentage >= UsageWarn THEN "warn"
    ELSE IF /\ usagePercentage < UsageWarn
            /\ stateAccountInfo # NoValue
            /\ stateAccountInfo >= UsageWarn
    THEN "normal"
    ELSE "none"

\* The start-up timeout of the account check fires and requests the usage.
AccountTimeout ==
    /\ account.timeoutPending
    /\ account.inFlight < MaxAccountChecks
    /\ account' = [account EXCEPT !.timeoutPending = FALSE,
                                   !.inFlight = @ + 1,
                                   !.checked = NoValue,
                                   !.published = "none"]
    /\ UNCHANGED <<sessionVars, forecastVars>>

\* The six-hour interval of the account check fires and requests the usage.
AccountCheckInterval ==
    /\ account.accountCheckInterval
    /\ account.inFlight < MaxAccountChecks
    /\ account' = [account EXCEPT !.inFlight = @ + 1,
                                   !.checked = NoValue,
                                   !.published = "none"]
    /\ UNCHANGED <<sessionVars, forecastVars>>

\* fetchAccountInfo returns to either timer callback: on a report the
\* callback assigns state.accountInfo, publishes the account and calls
\* checkApiLimits; on null (NoValue) it leaves the state alone.  previous is
\* the usage state.accountInfo held before the assignment.
AccountResponse(usagePercentage) ==
    /\ account.inFlight > 0
    /\ account' =
           IF usagePercentage = NoValue
           THEN [account EXCEPT !.inFlight = @ - 1,
                                !.checked = NoValue,
                                !.published = "none"]
           ELSE LET notification ==
                        CheckApiLimits(usagePercentage, usagePercentage)
                IN  [account EXCEPT
                        !.inFlight = @ - 1,
                        !.previous = account.accountInfo,
                        !.accountInfo = usagePercentage,
                        !.checked = usagePercentage,
                        !.published = notification,
                        !.apiUsage = IF notification = "none"
                                     THEN @ ELSE notification]
    /\ UNCHANGED <<sessionVars, forecastVars>>

\* The account checks of a session from construction on.
NextAccount ==
    \/ Start
    \/ Stop
    \/ AccountTimeout
    \/ AccountCheckInterval
    \/ \E usagePercentage \in UsageChoices \cup {NoValue} :
           AccountResponse(usagePercentage)

SpecAccount == Init /\ [][NextAccount]_vars

(* ------------------------------ claims -------------------------------- *)

\* C1: at most one refresh cycle is in progress at any time; a trigger that
\* fires while a cycle is in flight is coalesced or dropped.
CE_C1 == Len(cycle) <= 1

\* C2: every per-hour predicted position of a moving-vessel cycle is
\* computed from the origin position, heading and SOG the session held when
\* the cycle started, whatever events arrive between its fetches.
CE_C2 ==
    \A i \in Slots :
        cycle[i].pc = "hourFetch" =>
            cycle[i].predictedPos =
                CalculateFuturePosition(cycle[i].snap.position,
                                        cycle[i].snap.heading,
                                        cycle[i].snap.sog, cycle[i].hour)

\* C3: a cycle dispatched with engagement true, SOG = 5 knots, a position and
\* a heading of exactly 0 rad takes the moving path: it issues its per-hour
\* fetches, maxForecastHours of them by the time of the daily fetch, each
\* strictly north of the one before.
CE_C3 ==
    \A i \in Slots :
        (/\ cycle[i].snap.ok
         /\ cycle[i].snap.heading = HeadingNorth
         /\ cycle[i].snap.sog = FiveKnots
         /\ ~cycle[i].failed)
        => /\ Len(cycle[i].fetchedAt) >= 1
           /\ cycle[i].pc = "dailyFetch"
                  => Len(cycle[i].fetchedAt) = options.maxForecastHours
           /\ \A h \in 1..(Len(cycle[i].fetchedAt) - 1) :
                  cycle[i].fetchedAt[h + 1] > cycle[i].fetchedAt[h]

\* C4: for every hour offset the assembler selects the row of the target
\* calendar hour whenever the returned series contains it, also when the
\* target hour lies after the next midnight; no hour is skipped whose row
\* the series holds.
CE_C4 == \A i \in Slots : ~cycle[i].missed

\* C5: with auto-enable on, once an explicit command has set engagement to
\* false the flag stays false, whatever SOG events follow, until an explicit
\* command sets it to true.
CE_C5 ==
    (currentConfig.enableAutoMovingForecast /\ lastCommand = "false")
        => ~movingForecastEngaged

\* C6: with auto-enable off, movingForecastEngaged turns from false to true
\* only in a step of the PUT handler with the value true, and a cycle
\* enters the moving-vessel loop only after such a command.
Thm_C6 ==
    [][/\ (~movingForecastEngaged /\ movingForecastEngaged')
              => PutHandler(TRUE)
       /\ (/\ Len(cycle') > Len(cycle)
           /\ cycle'[Len(cycle')].pc = "hourFetch")
              => lastCommand = "true"]_vars

\* C6: auto-enable is off and an SOG above the threshold has been received
\* without engaging the moving forecast.
Wit_C6 ==
    /\ currentConfig.defined
    /\ ~currentConfig.enableAutoMovingForecast
    /\ currentSOG = FiveKnots
    /\ ~movingForecastEngaged
    /\ lastCommand = "none"

\* The update trigger as the specification states it: no prior update, or
\* the interval has elapsed, or the new position lies more than 9,260 m from
\* the last forecast position.
ExpectedRefresh(position) ==
    \/ lastForecastUpdate = 0
    \/ (now - lastForecastUpdate \div MsPerHour) * 60 >= ForecastIntervalMinutes
    \/ /\ currentPosition.kind = "pos"
       /\ \/ position.latitude - currentPosition.latitude
                 > UpdateDistanceMeters * LatUnitsPerMeter
          \/ currentPosition.latitude - position.latitude
                 > UpdateDistanceMeters * LatUnitsPerMeter

\* C7: a position event starts a refresh cycle exactly when no prior
\* forecast update exists, or the elapsed time is at least the interval, or
\* the distance from the last forecast position exceeds 9,260 m.
Thm_C7 ==
    [][\A position \in PositionChoices :
           PositionEvent(position, MaxCycles)
               => (Len(cycle') = Len(cycle) + 1 <=> ExpectedRefresh(position))
      ]_vars

\* C7: a cycle is in flight that a position event started by distance alone,
\* no time having elapsed since the last forecast update.
Wit_C7 ==
    /\ lastForecastUpdate = DateNow
    /\ \E i \in Slots : cycle[i].byDistance

\* C8: per-hour fetches are issued only by a cycle dispatched with
\* engagement true, SOG strictly above the threshold, and heading and
\* position known; any other cycle is one stationary fetch and publishes no
\* moving-vessel record.
Thm_C8 ==
    /\ \A i \in Slots :
           /\ cycle[i].fetchedAt # <<>> => cycle[i].snap.ok
           /\ ~cycle[i].snap.ok
                  => /\ cycle[i].pc = "statFetch"
                     /\ cycle[i].nStatFetch = 1
                     /\ ~cycle[i].movingPublished
    /\ ended.returned
           => /\ ended.nHourFetch > 0 => ended.startOk
              /\ ~ended.startOk
                     => /\ ended.nStatFetch = 1
                        /\ ~ended.movingPublished

\* C8: a cycle dispatched under the four conditions is at its second
\* per-hour fetch, engagement having been cleared since its start.
Wit_C8 ==
    \E i \in Slots :
        /\ cycle[i].pc = "hourFetch"
        /\ cycle[i].hour = 1
        /\ cycle[i].snap.ok
        /\ ~movingForecastEngaged

\* C9: a cycle in which a fetch failed returns with lastForecastUpdate
\* advanced and the failure reported to the host.
CE_C9 ==
    (ended.returned /\ ended.failed) => (ended.reported /\ ended.advanced)

\* C10: a cycle in which a per-hour fetch failed publishes no moving-vessel
\* hourly record and performs exactly one stationary fetch.
CE_C10 ==
    (ended.returned /\ ended.hourFailed)
        => (~ended.movingPublished /\ ended.nStatFetch = 1)

\* C11: after stop and until the next start no new refresh cycle starts:
\* every step that adds a cycle is taken while the session is started.
CE_C11 == [][Len(cycle') > Len(cycle) => currentConfig.defined]_vars

\* C12: a moving-vessel cycle that a position event starts fetches its
\* hour 0 for the position that event carried, the most recent one received.
CE_C12 ==
    [][\A position \in PositionChoices :
           (/\ PositionEvent(position, MaxCycles)
            /\ Len(cycle') > Len(cycle)
            /\ cycle'[Len(cycle')].pc = "hourFetch")
               => cycle'[Len(cycle')].predictedPos = position
      ]_vars

\* C13: a moving-vessel cycle all of whose per-hour fetches were issued and
\* succeeded issues exactly one daily fetch.
CE_C13 ==
    (/\ ended.returned
     /\ ended.startOk
     /\ ended.nHourFetch = options.maxForecastHours
     /\ ~ended.hourFailed)
        => ended.nDailyFetch = 1

\* C14: the per-hour fetches of a cycle are sequential: while the fetch of
\* hour h is in flight, and during the pacing delay after it, exactly h + 1
\* fetches have been issued; the daily fetch follows the last of them; and
\* no pacing delay follows the last hour.
Thm_C14 ==
    \A i \in Slots :
        /\ cycle[i].pc = "hourFetch"
               => Len(cycle[i].fetchedAt) = cycle[i].hour + 1
        /\ cycle[i].pc = "pacing"
               => /\ Len(cycle[i].fetchedAt) = cycle[i].hour + 1
                  /\ cycle[i].hour < options.maxForecastHours - 1
        /\ cycle[i].pc = "dailyFetch"
               => Len(cycle[i].fetchedAt) = options.maxForecastHours

\* C14: a cycle is in its pacing delay between two per-hour fetches.
Wit_C14 ==
    \E i \in Slots :
        /\ cycle[i].pc = "pacing"
        /\ Len(cycle[i].fetchedAt) = cycle[i].hour + 1

\* C15: an engagement command that is not a boolean is answered with
\* FAILURE and status 400, publishes nothing and leaves the session state as
\* it was; a boolean sets movingForecastEngaged to that value, publishes it
\* and is answered with COMPLETED.
Thm_C15 ==
    [][\A value \in CommandValues :
           PutRequest(value) =>
               IF value.type = "boolean"
               THEN /\ movingForecastEngaged' = value.bool
                    /\ output'.published = <<value.bool>>
                    /\ output'.state = "COMPLETED"
               ELSE /\ output'.state = "FAILURE"
                    /\ output'.statusCode = BadRequest
                    /\ output'.published = <<>>
                    /\ UNCHANGED <<currentConfig, navigationSubscriptions,
                                   forecastInterval, initialFetchPending,
                                   currentPosition, currentHeading,
                                   currentSOG, lastForecastUpdate,
                                   movingForecastEngaged, cycle>>
      ]_vars

\* C15: a command that is not a boolean has been rejected while the moving
\* forecast was engaged.
Wit_C15 == output.state = "FAILURE" /\ movingForecastEngaged

\* C16: movingForecastEngaged is false when the plugin loads and whenever
\* the plugin is stopped, whatever preceded the stop, and the value start
\* publishes is false.
Thm_C16 ==
    /\ ~movingForecastEngaged
    /\ [][/\ Start => output'.published = <<FALSE>>
          /\ ~currentConfig'.defined => ~movingForecastEngaged'
         ]_vars

\* C16: the plugin is stopped after a speed of 5 knots had engaged the
\* moving forecast.
Wit_C16 ==
    /\ ~currentConfig.defined
    /\ currentSOG = FiveKnots
    /\ ~movingForecastEngaged

\* The package list the processed record was built for.
OwnedFields ==
    IF processed = "daily"
    THEN GetDailyPackageFields(packageType)
    ELSE GetHourlyPackageFields(packageType)

\* C17: a record built for a package holds a field of the provider row only
\* if the field is in the package's list for that granularity; from a row
\* with significantwaveheight and temperature, basic keeps temperature
\* alone and sea keeps significantwaveheight alone.
Thm_C17 ==
    processed # "none" =>
        /\ \A field \in DOMAIN data \ {"time"} :
               field \in DOMAIN forecast => field \in OwnedFields
        /\ (/\ processed = "hourly"
            /\ {"significantwaveheight", "temperature"} \subseteq DOMAIN data)
               => /\ packageType = "basic" =>
                         /\ "significantwaveheight" \notin DOMAIN forecast
                         /\ "temperature" \in DOMAIN forecast
                  /\ packageType = "sea" =>
                         /\ "significantwaveheight" \in DOMAIN forecast
                         /\ "temperature" \notin DOMAIN forecast

\* C17: the basic record of a row that holds significantwaveheight and
\* temperature.
Wit_C17 ==
    /\ processed = "hourly"
    /\ packageType = "basic"
    /\ "significantwaveheight" \in DOMAIN data
    /\ "temperature" \in DOMAIN forecast

\* The conversion the specification gives for a field name: the first rule
\* that matches, in its order.
ExpectedConversion(field, value) ==
    CASE Includes(field, "temperature") -> value + KelvinOffset
      [] Includes(field, "direction") -> (value * PiMilli) \div StraightAngle
      [] field \in {"precipitation", "convective_precipitation"} ->
             value \div 1000
      [] Includes(field, "pressure") -> value * 100
      [] Includes(field, "humidity") \/ Includes(field, "cloudcover") ->
             value \div 100
      [] field = "precipitation_probability" -> value \div 100
      [] OTHER -> value

\* C18: every owned field of a record, hourly or daily, carries the value
\* of the row converted by the first matching rule, and the two description
\* fields are present exactly beside douglas_seastate.
Thm_C18 ==
    processed # "none" =>
        /\ \A field \in OwnedFields \cap DOMAIN data :
               /\ field \in DOMAIN forecast
               /\ forecast[field] = ExpectedConversion(field, data[field])
        /\ \A field \in {"douglas_seastate_description",
                         "douglas_seastate_verbose"} :
               field \in DOMAIN forecast
                   <=> "douglas_seastate" \in OwnedFields \cap DOMAIN data

\* C18: precipitation_probability, whose name also begins with
\* precipitation, has been converted from percent to a ratio.
Wit_C18 ==
    /\ processed # "none"
    /\ "precipitation_probability" \in DOMAIN forecast
    /\ data["precipitation_probability"] = One
    /\ forecast["precipitation_probability"] = One \div 100

\* The fields that hold a temperature.
TemperatureQuantities ==
    {"temperature", "felttemperature", "seasurfacetemperature", "dewpoint",
     "dewpointtemperature", "temperature_max", "temperature_min",
     "temperature_mean", "felttemperature_max", "felttemperature_min",
     "felttemperature_mean", "dewpoint_max", "dewpoint_min", "dewpoint_mean"}

\* C19: every temperature of a record is the row's Celsius value plus
\* 273.15, the dew point fields included.
CE_C19 ==
    processed # "none" =>
        \A field \in TemperatureQuantities \cap DOMAIN forecast :
            forecast[field] = data[field] + KelvinOffset

\* C20: an output field of the Weather API object whose source fields were
\* not published is absent: without currentvelocity_u and currentvelocity_v
\* there is no surfaceCurrentSpeed and no drift, and without isdaylight an
\* hourly object has no isDaylight.
CE_C20 ==
    weatherData # <<>> =>
        /\ (/\ "currentvelocity_u" \notin DOMAIN forecast
            /\ "currentvelocity_v" \notin DOMAIN forecast)
               => /\ "water.surfaceCurrentSpeed" \notin DOMAIN weatherData
                  /\ "current.drift" \notin DOMAIN weatherData
        /\ "isdaylight" \notin DOMAIN forecast
               => "sun.isDaylight" \notin DOMAIN weatherData

\* The tree and the test fields of the granularity of the last query.
QueriedTree == IF query.type = "daily" THEN store.daily ELSE store.hourly

QueriedTestFields ==
    IF query.type = "daily"
    THEN {"temperature_max", "windspeed_max", "uvindex"}
    ELSE {"temperature", "windspeed", "seasurfacetemperature", "uvindex"}

\* An index of the queried tree has a value for one of the test fields.
QueriedIndexHasData(i) ==
    /\ i + 1 <= Len(QueriedTree)
    /\ DOMAIN QueriedTree[i + 1] \cap QueriedTestFields # {}

\* C21: a forecast query with count n that reads the store tests the
\* indices 0, 1, 2, ... in this order, tests no index after one without
\* data and no index from n + 10 on, and returns at most n records, each
\* from an index that has data as have all indices below it.
Thm_C21 ==
    (query.method = "getForecasts" /\ query.checked) =>
        /\ \A k \in 1..Len(query.probes) : query.probes[k] = k - 1
        /\ \A k \in 1..(Len(query.probes) - 1) :
               QueriedIndexHasData(query.probes[k])
        /\ \A k \in 1..Len(query.probes) :
               query.probes[k] < query.maxCount + 10
        /\ Len(query.forecasts) <= query.maxCount
        /\ Len(query.indices) = Len(query.forecasts)
        /\ \A k \in 1..Len(query.indices) :
               /\ \A i \in 0..query.indices[k] : QueriedIndexHasData(i)
               /\ \A j \in 1..(k - 1) : query.indices[j] < query.indices[k]

\* A query for one record of a store with twelve: the scan stopped at the
\* cap with every tested index populated, and one record was returned.
Wit_C21 ==
    /\ query.method = "getForecasts"
    /\ query.maxCount = 1
    /\ Len(query.probes) = 11
    /\ QueriedIndexHasData(10)
    /\ Len(query.forecasts) = 1

\* A step that answers a Weather API query.
QueryStep == query' # query /\ query'.method # "none"

\* C22: a forecast query for a granularity without an enabled package, or
\* made while no configuration is loaded, returns no record and reads
\* nothing of the store; and no query of any kind starts a cycle or changes
\* the session state or the store.
Thm_C22 ==
    [][QueryStep =>
          /\ UNCHANGED <<sessionVars, store>>
          /\ (/\ query'.method = "getForecasts"
              /\ \/ ~currentConfig.defined
                 \/ (IF query'.type = "daily"
                     THEN currentConfig.dailyPackages = {}
                     ELSE currentConfig.hourlyPackages = {})) =>
                 /\ query'.forecasts = <<>>
                 /\ ~query'.checked
                 /\ query'.probes = <<>>]_vars

\* An hourly query answered without reading a store that holds hourly
\* values: the session had been stopped.
Wit_C22 ==
    /\ query.method = "getForecasts"
    /\ query.type = "point"
    /\ ~query.checked
    /\ Len(store.hourly) > 0
    /\ QueriedIndexHasData(0)

\* The configuration of the session enables no package.
NoPackageEnabled ==
    options.hourlyPackages = {} /\ options.dailyPackages = {}

\* C23: with no package enabled no fetch is ever in flight, and a cycle
\* that was triggered has returned without a fetch and without a
\* publication, has reported the error, and has advanced lastForecastUpdate.
Thm_C23 ==
    NoPackageEnabled =>
        /\ cycle = <<>>
        /\ ended.returned =>
               /\ ended.nHourFetch = 0
               /\ ended.nStatFetch = 0
               /\ ended.nDailyFetch = 0
               /\ ended.published = <<>>
               /\ ended.reported
               /\ ended.advanced
               /\ lastForecastUpdate = DateNow

\* A cycle dispatched to the moving-vessel assembler with no package
\* enabled has returned.
Wit_C23 ==
    /\ NoPackageEnabled
    /\ ended.returned
    /\ ended.startOk
    /\ ended.reported

\* The records a stationary fetch has published for a granularity.
StationaryRecords(granularity) ==
    {k \in 1..Len(ended.published) :
         /\ ended.published[k].by = "stationary"
         /\ ended.published[k].granularity = granularity
         /\ ended.published[k].forecasts # <<>>}

\* The stationary fetch has published, for every enabled package of the
\* granularity, the records of the block: one for each row, up to count.
StationaryPublished(granularity, packages, block, count) ==
    \A type \in packages :
        \E k \in 1..Len(ended.published) :
            /\ ended.published[k].by = "stationary"
            /\ ended.published[k].granularity = granularity
            /\ ended.published[k].type = type
            /\ Len(ended.published[k].forecasts)
                   = Min(Len(block.times), count)

\* C24: a stationary fetch that received a frame whose hourly block has no
\* time array publishes no hourly record and still publishes the daily
\* records of the frame for every enabled daily package; the same holds
\* with hourly and daily exchanged; the cycle returns and advances
\* lastForecastUpdate.
Thm_C24 ==
    (ended.returned /\ ended.nStatFetch = 1 /\ ~ended.failed) =>
        /\ (ended.frame.hourly.present /\ ~ended.frame.hourly.timeValid) =>
               /\ StationaryRecords("hourly") = {}
               /\ (ended.frame.daily.present /\ ended.frame.daily.timeValid) =>
                      StationaryPublished("daily", options.dailyPackages,
                                          ended.frame.daily,
                                          options.maxForecastDays)
               /\ ended.advanced
               /\ lastForecastUpdate = DateNow
        /\ (ended.frame.daily.present /\ ~ended.frame.daily.timeValid) =>
               /\ StationaryRecords("daily") = {}
               /\ (ended.frame.hourly.present /\ ended.frame.hourly.timeValid) =>
                      StationaryPublished("hourly", options.hourlyPackages,
                                          ended.frame.hourly,
                                          options.maxForecastHours)
               /\ ended.advanced
               /\ lastForecastUpdate = DateNow

\* A stationary fetch has returned from a frame without hourly time array
\* and has published daily records, with the error reported for every
\* enabled hourly package.
Wit_C24 ==
    /\ ended.returned
    /\ ended.nStatFetch = 1
    /\ ~ended.failed
    /\ ended.frame.hourly.present
    /\ ~ended.frame.hourly.timeValid
    /\ ended.dataErrors = 2
    /\ StationaryRecords("daily") # {}

\* The three fields the moving-vessel assembler adds to a record.
MovementFields == {"predictedLatitude", "predictedLongitude", "vesselMoving"}

\* The hourly publications in a sequence of publications that a function
\* has made.
HourlyBy(published, by) ==
    {k \in 1..Len(published) :
         published[k].by = by /\ published[k].granularity = "hourly"}

\* C27: every hourly record the moving-vessel assembler has published
\* carries predictedLatitude, predictedLongitude and vesselMoving = TRUE, the
\* position being the one predicted and fetched for the record's hour, and
\* every enabled hourly package has its records published; every hourly
\* record the stationary fetch has published carries none of the three.
Thm_C27 ==
    /\ \A k \in HourlyBy(ended.published, "moving") :
           \A r \in 1..Len(ended.published[k].forecasts) :
               LET record == ended.published[k].forecasts[r]
               IN  /\ MovementFields \subseteq DOMAIN record
                   /\ record["vesselMoving"] = TRUE
    /\ \A k \in HourlyBy(ended.published, "stationary") :
           \A r \in 1..Len(ended.published[k].forecasts) :
               DOMAIN ended.published[k].forecasts[r] \cap MovementFields = {}
    /\ \A i \in Slots :
           /\ \A k \in HourlyBy(cycle[i].published, "moving") :
                  LET forecasts == cycle[i].published[k].forecasts
                  IN  /\ Len(forecasts) = Len(cycle[i].acc)
                      /\ \A r \in 1..Len(forecasts) :
                             /\ MovementFields \subseteq DOMAIN forecasts[r]
                             /\ forecasts[r]["vesselMoving"] = TRUE
                             /\ forecasts[r]["predictedLongitude"] = 0
                             /\ forecasts[r]["predictedLatitude"]
                                    = cycle[i].fetchedAt[cycle[i].acc[r] + 1]
                             /\ forecasts[r]["timestamp"]
                                    = cycle[i].currentHour + cycle[i].acc[r]
           /\ (cycle[i].pc = "dailyFetch" /\ cycle[i].acc # <<>>) =>
                  \A type \in options.hourlyPackages :
                      \E k \in HourlyBy(cycle[i].published, "moving") :
                          cycle[i].published[k].type = type

\* A moving cycle has published two hours of two packages, the second at a
\* position predicted south of the first, and awaits its daily fetch.
Wit_C27 ==
    \E i \in Slots :
        /\ cycle[i].pc = "dailyFetch"
        /\ Cardinality(HourlyBy(cycle[i].published, "moving")) = 2
        /\ \E k \in HourlyBy(cycle[i].published, "moving") :
               LET forecasts == cycle[i].published[k].forecasts
               IN  /\ Len(forecasts) = 2
                   /\ forecasts[2]["predictedLatitude"]
                          < forecasts[1]["predictedLatitude"]

\* The terse descriptions of the Douglas scale, from 0 to 9.
TerseDescriptions ==
    <<"Calm", "Calm", "Smooth", "Slight", "Moderate", "Rough", "Very rough",
      "High", "Very high", "Phenomenal">>

\* The whole number nearest to a quantity, the half going up.
Nearest(value) ==
    CHOOSE k \in -2..12 :
        2 * k * One - One <= 2 * value /\ 2 * value < 2 * k * One + One

\* A string begins with a prefix.
BeginsWith(s, prefix) ==
    Len(s) >= Len(prefix) /\ SubSeq(s, 1, Len(prefix)) = prefix

\* C25: a processed record has the two sea-state descriptions exactly when
\* it has douglas_seastate; for a value that rounds to k in 0..9 the terse
\* description is the k-th of the table and the verbose one its k-th entry,
\* which begins with the terse one; for any other value the terse
\* description is "Unknown" and the verbose one begins with "Unknown (".
Thm_C25 ==
    processed # "none" =>
        /\ ("douglas_seastate" \in DOMAIN forecast)
               = ("douglas_seastate_description" \in DOMAIN forecast)
        /\ ("douglas_seastate" \in DOMAIN forecast)
               = ("douglas_seastate_verbose" \in DOMAIN forecast)
        /\ "douglas_seastate" \in DOMAIN forecast =>
               LET k == Nearest(forecast["douglas_seastate"])
                   terse == forecast["douglas_seastate_description"]
                   verbose == forecast["douglas_seastate_verbose"]
               IN  IF k \in 0..9
                   THEN /\ terse = TerseDescriptions[k + 1]
                        /\ BeginsWith(verbose, terse \o " (")
                        /\ (k = 4 => terse = "Moderate")
                   ELSE /\ terse = "Unknown"
                        /\ BeginsWith(verbose, "Unknown (")

\* The record of a row with sea state 11: the terse description is Unknown.
Wit_C25 ==
    /\ processed = "hourly"
    /\ "douglas_seastate" \in DOMAIN forecast
    /\ forecast["douglas_seastate"] = 11 * One
    /\ forecast["douglas_seastate_description"] = "Unknown"

\* The configured threshold in the unit of the speed over ground.
ThresholdSpeed == MovingSpeedThreshold * KnotsToMicroMps

\* A step starts a cycle that is still in flight after it.
CycleStarts == Len(cycle') > Len(cycle)

\* C26: engagement turns on without a command only in a step that leaves
\* the speed strictly above the threshold, and a new speed strictly above
\* the threshold turns it on; a cycle that starts while the speed is at or
\* below the threshold goes to the stationary fetch, and one that starts
\* with engagement, a heading south, a stored position with coordinates and
\* a speed strictly above the threshold goes to the per-hour fetches.
Thm_C26 ==
    [][/\ (/\ ~movingForecastEngaged
           /\ movingForecastEngaged'
           /\ output'.state # "COMPLETED") => currentSOG' > ThresholdSpeed
       /\ (currentSOG' # currentSOG /\ currentSOG' > ThresholdSpeed) =>
              movingForecastEngaged'
       /\ (currentSOG' = ThresholdSpeed /\ currentSOG' # currentSOG) =>
              /\ movingForecastEngaged' = movingForecastEngaged
              /\ output' = NoOutput
       /\ (CycleStarts /\ currentSOG <= ThresholdSpeed) =>
              /\ cycle'[Len(cycle')].pc = "statFetch"
              /\ cycle'[Len(cycle')].fetchedAt = <<>>
       /\ (/\ CycleStarts
           /\ currentSOG > ThresholdSpeed
           /\ movingForecastEngaged
           /\ currentHeading = HeadingSouth
           /\ currentPosition'.kind = "pos") =>
              cycle'[Len(cycle')].pc = "hourFetch"]_vars

\* Engagement was commanded on, the speed is exactly the threshold, the
\* heading is known, and the cycle in flight is a stationary fetch.
Wit_C26 ==
    /\ movingForecastEngaged
    /\ lastCommand = "true"
    /\ currentSOG = ThresholdSpeed
    /\ currentHeading = HeadingSouth
    /\ cycle # <<>>
    /\ cycle[1].pc = "statFetch"
    /\ cycle[1].fetchedAt = <<>>
    /\ ~cycle[1].reported

\* C29: a cycle that starts while the speed is at or below the threshold,
\* or while engagement is off, is one stationary fetch with no per-hour
\* fetch, whatever the cycles before it were; a step in which the speed
\* drops leaves movingForecastEngaged as it was and publishes nothing.
Thm_C29 ==
    [][/\ (CycleStarts
           /\ (currentSOG <= ThresholdSpeed \/ ~movingForecastEngaged)) =>
              /\ cycle'[Len(cycle')].pc = "statFetch"
              /\ cycle'[Len(cycle')].fetchedAt = <<>>
              /\ cycle'[Len(cycle')].allHourlyForecasts = <<>>
       /\ (currentSOG # NoValue /\ currentSOG' < currentSOG) =>
              /\ movingForecastEngaged' = movingForecastEngaged
              /\ output' = NoOutput]_vars

\* A moving-vessel cycle is still in flight, the speed has dropped to the
\* threshold with engagement still on, and the cycle started after it is a
\* stationary fetch.
Wit_C29 ==
    /\ Len(cycle) = 2
    /\ cycle[1].fetchedAt # <<>>
    /\ cycle[1].pc \in {"hourFetch", "pacing", "dailyFetch"}
    /\ cycle[2].pc = "statFetch"
    /\ cycle[2].fetchedAt = <<>>
    /\ currentSOG = ThresholdSpeed
    /\ movingForecastEngaged

\* shouldUpdateForecast returns false for the position, read from its three
\* return statements: an update is recorded, the interval has not elapsed,
\* and the position the callback compares with is not more than 9260 m away.
NegativeTrigger(position) ==
    LET stored == IF currentPosition.kind = "null"
                  THEN position ELSE currentPosition
    IN  /\ lastForecastUpdate # 0
        /\ DateNow - lastForecastUpdate
               < currentConfig.forecastInterval * 60 * 1000
        /\ stored.kind = "pos" =>
               Abs(position.latitude - stored.latitude)
                   <= UpdateDistanceMeters * LatUnitsPerMeter

\* C30: a position event with a negative update trigger starts no cycle,
\* publishes nothing and leaves lastForecastUpdate, the stored position,
\* heading, speed and engagement as they were; a step that changes the
\* heading or the speed starts no cycle.
CE_C30 ==
    [][/\ \A position \in PositionChoices :
              (PositionEvent(position, MaxCycles)
               /\ NegativeTrigger(position)) =>
                  /\ UNCHANGED <<cycle, lastForecastUpdate, currentPosition,
                                 currentHeading, currentSOG,
                                 movingForecastEngaged>>
                  /\ output' = NoOutput
                  /\ ended' = Summary(IdleCycle)
       /\ (currentHeading' # currentHeading \/ currentSOG' # currentSOG) =>
              /\ UNCHANGED <<cycle, lastForecastUpdate, currentPosition>>
              /\ ended' = Summary(IdleCycle)]_vars

\* C28: a check that reports a usage below 80% after a check that reported
\* 80% or more publishes the state normal on
\* notifications.meteoblue.apiUsage, which then holds it; a check that
\* reports 90% or more publishes alert, and one that reports 80..89%
\* publishes warn.
CE_C28 ==
    account.checked # NoValue =>
        /\ (account.previous >= 80 /\ account.checked < 80) =>
               /\ account.published = "normal"
               /\ account.apiUsage = "normal"
        /\ account.checked >= 90 => account.published = "alert"
        /\ (account.checked >= 80 /\ account.checked < 90) =>
               account.published = "warn"

\* C31: while no position is stored, a step that is not a position event
\* starts no cycle, and a position event starts one.
CE_C31 ==
    [][currentPosition.kind = "null" =>
          IF \E position \in PositionChoices :
                 PositionEvent(position, MaxCycles)
          THEN CycleStarts
          ELSE ~CycleStarts]_vars

\* The cycle that has been in flight longest returns.
OldestReturns == cycle # <<>> /\ cycle' = Tail(cycle)

\* C32: under SpecFair every cycle in flight eventually returns (time and
\* again no cycle is in flight, or time and again the oldest returns); a cycle
\* that returns has issued at most maxForecastHours per-hour fetches, at
\* most one daily fetch and at most one stationary fetch, exactly one
\* fetch in all when it was dispatched as stationary, and its return
\* leaves lastForecastUpdate at the time of the return.
Thm_C32 ==
    /\ \/ []<>(cycle = <<>>)
       \/ []<><<OldestReturns>>_vars
    /\ [](ended.returned =>
             /\ ended.nHourFetch <= options.maxForecastHours
             /\ ended.nDailyFetch <= 1
             /\ ended.nStatFetch <= 1
             /\ (ended.nHourFetch = 0 /\ ~ended.reported) =>
                    ended.nStatFetch = 1 /\ ended.nDailyFetch = 0
             /\ ended.nDailyFetch = 1 =>
                    ended.nHourFetch = options.maxForecastHours
             /\ ended.advanced
             /\ lastForecastUpdate = DateNow)

\* A moving-vessel cycle has returned after all its per-hour fetches and
\* its daily fetch.
Wit_C32 ==
    /\ ended.returned
    /\ ended.nHourFetch = MaxForecastHours
    /\ ended.nDailyFetch = 1
    /\ cycle = <<>>

\* C33: under SpecRetry every cycle is started by a position event at
\* FarPosition; when such a cycle has just returned, a further position
\* event at FarPosition (the clock has not moved, so the interval has not
\* elapsed) starts no cycle.
CE_C33 ==
    [][(ended.returned /\ PositionEvent(FarPosition, MaxCycles)) =>
           ~CycleStarts]_vars

\* The moving-vessel hourly publications of the cycle that has just
\* returned or is in its last step.
MovingHourly ==
    SelectSeq(ended.published,
              LAMBDA p : p.by = "moving" /\ p.granularity = "hourly")

\* C34: under SpecPublish (the clock, heading and speed do not change) the
\* record a moving-vessel cycle publishes at index N has the timestamp of
\* the current hour plus N and the position predicted for N hours of
\* travel.
CE_C34 ==
    \A i \in 1..Len(MovingHourly) :
        LET p == MovingHourly[i]
        IN  \A k \in 1..Len(p.forecasts) :
                /\ p.forecasts[k].timestamp = now + (k - 1)
                /\ p.forecasts[k].predictedLatitude =
                       CalculateFuturePosition(p.cp, currentHeading,
                                               currentSOG, k - 1).latitude

\* C35: no refresh cycle publishes both a moving-vessel hourly series and a
\* stationary hourly series.
CE_C35 ==
    ~(HourlyBy(ended.published, "moving") # {} /\
      HourlyBy(ended.published, "stationary") # {})

\* The host's tree after a cycle has published, into an empty tree, one
\* hourly and one daily row of the provider's values at the latest
\* publication.
LatestValues ==
    LET value == store.publications * One
        frame == Frame(Block(BlockTimes(1, 1, now), AllFields, value, {}),
                       Block(BlockTimes(1, HoursPerDay, now), AllFields,
                             value, {}))
    IN  StoreAfterFrame(EmptyStore, frame, options, now, currentPosition)

\* C36: every record a forecast query returns holds only values of the
\* latest publication: no record of an earlier cycle is returned, at any
\* index.
CE_C36 ==
    (query.method = "getForecasts" /\ query.checked) =>
        \E latest \in {LatestValues} :
            LET tree == IF query.type = "daily" THEN store.daily
                        ELSE store.hourly
                fresh == IF query.type = "daily" THEN latest.daily
                         ELSE latest.hourly
            IN  \A k \in 1..Len(query.indices) :
                    LET record == tree[query.indices[k] + 1]
                    IN  /\ fresh # <<>>
                        /\ \A key \in DOMAIN record \cap AllFields :
                               /\ key \in DOMAIN fresh[1]
                               /\ record[key] = fresh[1][key]

\* C37: after the first publication of a session, a forecast query for a
\* granularity with an enabled package, every published record of which
\* holds a field of an enabled package, returns as many records as were
\* published, or as many as were asked for if that is fewer.
CE_C37 ==
    (/\ query.method = "getForecasts"
     /\ query.checked
     /\ store.publications = 1
     /\ \A k \in 1..Len(QueriedTree) :
            DOMAIN QueriedTree[k] \cap ReaderFields(query.type) # {}) =>
        Len(query.forecasts) = Min(Len(QueriedTree), query.maxCount)

\* The frames the provider returns at hour t in the runs that follow the
\* start index: data_1h of one, three or a day's rows that begin the day
\* before, at the local midnight, or an hour before, at or an hour after t.
PastFrames(t) ==
    LET midnight == t - (t % HoursPerDay)
        daily == Block(BlockTimes(MaxForecastDays, HoursPerDay, midnight),
                       AllFields, One, {})
    IN  {Frame(Block(BlockTimes(rows, 1, first), AllFields, One, {}), daily) :
            rows \in {1, 3, HoursPerDay},
            first \in {midnight - HoursPerDay, midnight, t - 1, t, t + 1}}

\* A started session of a vessel without heading and speed, before its
\* first position.
InitPast ==
    /\ options = Config(TRUE, MaxForecastHours)
    /\ currentConfig = options
    /\ navigationSubscriptions = TRUE
    /\ forecastInterval = options.forecastInterval \div 60
    /\ initialFetchPending = FALSE
    /\ currentPosition = NullPos
    /\ currentHeading = NoValue
    /\ currentSOG = NoValue
    /\ lastForecastUpdate = 0
    /\ movingForecastEngaged = FALSE
    /\ lastCommand = "none"
    /\ now = StartHour
    /\ cycle = <<>>
    /\ ended = Summary(IdleCycle)
    /\ output = NoOutput
    /\ DataStarted

NextPast ==
    \/ \E position \in PositionChoices : PositionEvent(position, MaxCycles)
    \/ Tick
    \/ \E i \in Slots, resp \in Responses, frame \in PastFrames(now) :
           StatFrameResponse(i, resp, frame)

SpecPast == InitPast /\ [][NextPast]_vars

\* C38: the hourly records a stationary cycle publishes from a frame are
\* those of the provider's rows from the first row at or after the current
\* hour on, in the provider's order and at most maxForecastHours of them;
\* none of them is earlier than the current hour, and none is published
\* when every row is in the past.
CE_C38 ==
    (/\ ended.returned
     /\ ended.nStatFetch = 1
     /\ ~ended.failed
     /\ ended.frame.hourly.present) =>
        \A k \in HourlyBy(ended.published, "stationary") :
            LET forecasts == ended.published[k].forecasts
                times == ended.frame.hourly.times
                later == {i \in 1..Len(times) : times[i] >= now}
            IN  /\ Len(forecasts) <= options.maxForecastHours
                /\ \A r \in 1..Len(forecasts) :
                       forecasts[r]["timestamp"] >= now
                /\ later = {} => forecasts = <<>>
                /\ later # {} =>
                       LET first == CHOOSE i \in later : \A j \in later : i <= j
                       IN  /\ Len(forecasts)
                                = Min(Len(times) - first + 1,
                                      options.maxForecastHours)
                           /\ \A r \in 1..Len(forecasts) :
                                  forecasts[r]["timestamp"] = times[first + r - 1]

CE_C40 ==
    \A k \in 1..Len(ended.published) :
        LET p == ended.published[k]
        IN  p.granularity = "hourly" =>
                \A r \in 1..Len(p.forecasts) :
                    LET delta == DeltaValues(p.forecasts[r], "timestamp", p.cp)
                    IN  /\ "forecastPosition" \in DOMAIN delta
                        /\ delta["forecastPosition"]
                               = IF p.by = "moving"
                                 THEN p.forecasts[r]["predictedLatitude"]
                                 ELSE p.cp.latitude
====
